---- MODULE Spec2Model ----
(***************************************************************************)
(* trapperkeeper: the entity store (trapps, auth tokens, rules) on top of  *)
(* pooled SQLite connections.                                              *)
(*                                                                         *)
(* Every crud function runs one or two SQL statements on a connection the  *)
(* caller took from the pool and propagates the driver's error with `?`.   *)
(* The model keeps the tables, the pooled connections with the settings    *)
(* the customizer gave them, the tokens the random generator has handed    *)
(* out, and the last call with its arguments and its return value.         *)
(***************************************************************************)
EXTENDS Integers, Sequences, FiniteSets, TLC

VARIABLES
    db,           \* the tables of the SQLite file
    conns,        \* the connections of the pool
    issued,       \* the tokens the random generator has produced
    last,         \* the last call: arguments and result
    boot,         \* the process: how far startup has come
    calls,        \* the calls in progress, one per caller
    config,       \* CONFIG: debug mode and the administrator's credentials
    HMAC_SECRET,  \* the lazily initialised secret of the process
    app_data,     \* per worker, the key its handlers sign and verify with
    cookie,       \* the token string the client holds
    jar           \* the session cookies clients were sent and have kept

\* the state of the web layer
web == <<config, HMAC_SECRET, app_data, cookie, jar>>

vars == <<db, conns, issued, last, boot, calls, web>>

(***************************************************************************)
(* Bounds of the model.                                                    *)
(***************************************************************************)
\* largest rowid the trapps table hands out
MaxTrappId == 2
\* number of draws the random generator can make
MaxTokens == 1
\* number of rows the rules table can hold
MaxRules == 2
\* database.pool_size of the configuration
PoolSize == 1
\* the draws of the random generator the web layer makes
MaxDraws == 3
\* the connection timeout of the pool, in ticks of the clock
WaitTicks == 2
\* the migrations that can be pending at startup
MaxMigrations == 2
\* the tokens a store can hold when the calls on it begin
MaxStocked == 2

Conns == 1..PoolSize

\* names and titles the callers supply
Names == {"foo", "bar"}

\* trapp ids the callers supply: 0 is never assigned by the store
TrappIdInputs == 0..MaxTrappId

(***************************************************************************)
(* Result<T, crud::Error> and Option<T>.                                   *)
(***************************************************************************)
Ok(v) == [ok |-> TRUE, val |-> v]

Err(e) == [ok |-> FALSE, err |-> e]

None == <<>>

Some(v) == <<v>>

\* what `execute(conn).await?` returns when the driver reports a failure
SqlxError == Err("SqlxError")

(***************************************************************************)
(* crypto::random_token: n characters taken from the generator's stream.   *)
(* A draw is identified by the stream the thread-local generator yields;   *)
(* stream `seed` is the alphabet read cyclically from position `seed`.     *)
(***************************************************************************)
Alphanumeric == <<"A", "B", "C", "a", "b", "c", "0", "1", "2">>

sample_iter(seed, i) == Alphanumeric[((seed + i - 2) % Len(Alphanumeric)) + 1]

\* takes one character too few
random_token_short(n, seed) == [i \in 1..(n - 1) |-> sample_iter(seed, i)]

random_token(n, seed) == [i \in 1..n |-> sample_iter(seed, i)]

\* the 32-character token of each stream
Seeds == 1..(IF MaxTokens > MaxDraws THEN MaxTokens ELSE MaxDraws)

Token == [s \in Seeds |-> random_token(32, s)]

\* the streams the generator has not produced yet: two draws are equal with
\* negligible probability, so a draw never repeats an earlier one
FreshSeeds == {s \in 1..MaxTokens : Token[s] \notin issued}

\* auth token ids the callers supply
TokenIdInputs == {Token[s] : s \in 1..MaxTokens}

(***************************************************************************)
(* The schema.                                                             *)
(***************************************************************************)
TrappIds(d) == {t.id : t \in d.trapps}

AuthTokenIds(d) == {a.id : a \in d.auth_tokens}

\* INTEGER PRIMARY KEY: the rowid of a new row is one more than the largest
MaxOf(S) == IF S = {} THEN 0 ELSE CHOOSE m \in S : \A x \in S : x <= m

next_rowid(ids) == MaxOf(ids) + 1

\* auth_tokens (id): the primary key
auth_tokens_pkey(d, row) == row.id \notin AuthTokenIds(d)

\* auth_tokens.trapp_id REFERENCES trapps (id), checked on a connection
\* that has foreign_keys = ON
auth_tokens_trapp_id_fkey(d, conn, row) ==
    conn.fkey => row.trapp_id \in TrappIds(d)

\* ... ON DELETE CASCADE: the rows that survive the deletion of trapp `id`
\* on connection `conn` (SQLite runs foreign key actions only with
\* foreign_keys = ON)
on_delete_cascade(d, conn, id) ==
    IF conn.fkey
    THEN {a \in d.auth_tokens : a.trapp_id # id}
    ELSE d.auth_tokens

(***************************************************************************)
(* database.rs: the pool and its connection customizer.                    *)
(***************************************************************************)
\* a connection as SQLite opens it
RawConnection == [wal |-> FALSE, fkey |-> FALSE, busy_timeout |-> 0]

\* leaves the busy timeout of SQLite as it is
customizer_no_busy_timeout == [enable_wal |-> TRUE, enable_fkey |-> TRUE, busy_timeout |-> None]

\* the ConnectionOptions PoolBuilder::build installs
customizer == [enable_wal |-> TRUE, enable_fkey |-> TRUE, busy_timeout |-> Some(30000)]

\* the statements of on_acquire, in order; which of them the driver fails
\* (0: none) is the `fault` of a call
PragmaFaults == 0..3

\* `(|| { ... })().map_err(QueryError)`
QueryError == Err("QueryError")

\* leaves out the PRAGMA foreign_keys = ON
on_acquire_no_fkey(self, conn, fault) ==
    IF (self.enable_wal /\ fault = 1) \/ (self.busy_timeout # None /\ fault = 3)
    THEN QueryError
    ELSE Ok([wal |-> IF self.enable_wal THEN TRUE ELSE conn.wal,
             fkey |-> conn.fkey,
             busy_timeout |-> IF self.busy_timeout # None THEN self.busy_timeout[1]
                              ELSE conn.busy_timeout])

\* drops the `?` after the PRAGMA foreign_keys = ON
on_acquire_unchecked_fkey(self, conn, fault) ==
    IF (self.enable_wal /\ fault = 1) \/ (self.busy_timeout # None /\ fault = 3)
    THEN QueryError
    ELSE Ok([wal |-> IF self.enable_wal THEN TRUE ELSE conn.wal,
             fkey |-> IF self.enable_fkey /\ fault # 2 THEN TRUE ELSE conn.fkey,
             busy_timeout |-> IF self.busy_timeout # None THEN self.busy_timeout[1]
                              ELSE conn.busy_timeout])

\* ConnectionOptions::on_acquire: each batch_execute with `?`
on_acquire(self, conn, fault) ==
    IF self.enable_wal /\ fault = 1 THEN QueryError
    ELSE IF self.enable_fkey /\ fault = 2 THEN QueryError
    ELSE IF self.busy_timeout # None /\ fault = 3 THEN QueryError
    ELSE Ok([wal |-> IF self.enable_wal THEN TRUE ELSE conn.wal,
             fkey |-> IF self.enable_fkey THEN TRUE ELSE conn.fkey,
             busy_timeout |-> IF self.busy_timeout # None THEN self.busy_timeout[1]
                              ELSE conn.busy_timeout])

\* the places of the pool for physical connections: one more than max_size,
\* so that exceeding it is expressible
ConnSlots == 1..(PoolSize + 1)

\* no connection in the place; serial tells the connections it has had:
\* 0 none, 1 the first, 2 a later one
Closed(serial) == [open |-> FALSE, held |-> FALSE, opts |-> RawConnection, serial |-> serial]

\* the manager connects and the customizer runs; the connection joins the
\* pool only if the customizer returned Ok
establish(slot, fault) ==
    LET r == on_acquire(customizer, RawConnection, fault)
        serial == IF slot.serial = 0 THEN 1 ELSE 2
    IN IF r.ok
       THEN [open |-> TRUE, held |-> FALSE, opts |-> r.val, serial |-> serial]
       ELSE Closed(serial)

\* PoolBuilder::build: the pool establishes max_size connections, each
\* through the customizer, and none is checked out
build == [c \in ConnSlots |-> IF c \in Conns THEN establish(Closed(0), 0) ELSE Closed(0)]

\* PoolBuilder::build with `pool_size` configured
build_sized(pool_size) ==
    [c \in ConnSlots |-> IF c \in 1..pool_size THEN establish(Closed(0), 0) ELSE Closed(0)]

\* Pool::get hands out a connection of the pool that is not checked out;
\* the caller makes its call on it and drops the guard, which returns it
Available == {c \in ConnSlots : conns[c].open /\ ~conns[c].held}

(***************************************************************************)
(* crud/trapp.rs                                                           *)
(***************************************************************************)
\* returns rows_affected() where the code returns last_insert_rowid()
create_trapp_rows_affected(d, conn, title, fault) ==
    IF fault THEN [db |-> d, ret |-> SqlxError]
    ELSE LET id == next_rowid(TrappIds(d))
         IN [db |-> [d EXCEPT !.trapps = @ \cup {[id |-> id, name |-> title]}],
             ret |-> Ok(1)]

create_trapp(d, conn, title, fault) ==
    IF fault THEN [db |-> d, ret |-> SqlxError]
    ELSE LET id == next_rowid(TrappIds(d))
         IN [db |-> [d EXCEPT !.trapps = @ \cup {[id |-> id, name |-> title]}],
             ret |-> Ok(id)]

\* fetch_all: the rows a query selects, as the Vec the driver returns; the
\* order in which SQLite scans a table is no part of the tables as modelled
RECURSIVE fetch_all(_)

fetch_all(rows) ==
    IF rows = {} THEN <<>>
    ELSE LET rec == CHOOSE r \in rows : TRUE
         IN <<rec>> \o fetch_all(rows \ {rec})

get_trapps(d, conn, fault) ==
    IF fault THEN SqlxError
    ELSE LET recs == fetch_all(d.trapps)
         IN Ok([i \in 1..Len(recs) |-> [id |-> recs[i].id, name |-> recs[i].name]])

\* fetch_one where the code uses fetch_optional
get_trapp_by_id_fetch_one(d, conn, id, fault) ==
    IF fault THEN SqlxError
    ELSE LET rec == {t \in d.trapps : t.id = id}
         IN IF rec = {} THEN Err("RowNotFound")
            ELSE Ok(Some(CHOOSE t \in rec : TRUE))

get_trapp_by_id(d, conn, id, fault) ==
    IF fault THEN SqlxError
    ELSE LET rec == {t \in d.trapps : t.id = id}
         IN IF rec = {} THEN Ok(None)
            ELSE Ok(Some([id |-> (CHOOSE t \in rec : TRUE).id,
                          name |-> (CHOOSE t \in rec : TRUE).name]))

\* n >= 0 where the code tests n > 0
delete_trapp_by_id_always_true(d, conn, id, fault) ==
    IF fault THEN [db |-> d, ret |-> SqlxError]
    ELSE LET n == Cardinality({t \in d.trapps : t.id = id})
         IN [db |-> [d EXCEPT !.trapps = {t \in @ : t.id # id},
                              !.auth_tokens = IF n > 0 THEN on_delete_cascade(d, conn, id) ELSE @],
             ret |-> Ok(n >= 0)]

delete_trapp_by_id(d, conn, id, fault) ==
    IF fault THEN [db |-> d, ret |-> SqlxError]
    ELSE LET n == Cardinality({t \in d.trapps : t.id = id})
         IN [db |-> [d EXCEPT !.trapps = {t \in @ : t.id # id},
                              !.auth_tokens = IF n > 0 THEN on_delete_cascade(d, conn, id) ELSE @],
             ret |-> Ok(n > 0)]

(***************************************************************************)
(* crud/auth_token.rs                                                      *)
(***************************************************************************)
\* drops the `?` after the insert
create_auth_token_ignores_error(d, conn, trapp_id, name, seed, fault) ==
    LET id == Token[seed]
        row == [id |-> id, trapp_id |-> trapp_id, name |-> name]
    IN IF fault \/ ~auth_tokens_pkey(d, row) \/ ~auth_tokens_trapp_id_fkey(d, conn, row)
       THEN [db |-> d, ret |-> Ok(id)]
       ELSE [db |-> [d EXCEPT !.auth_tokens = @ \cup {row}], ret |-> Ok(id)]

create_auth_token(d, conn, trapp_id, name, seed, fault) ==
    LET id == Token[seed]
        row == [id |-> id, trapp_id |-> trapp_id, name |-> name]
    IN IF fault \/ ~auth_tokens_pkey(d, row) \/ ~auth_tokens_trapp_id_fkey(d, conn, row)
       THEN [db |-> d, ret |-> SqlxError]
       ELSE [db |-> [d EXCEPT !.auth_tokens = @ \cup {row}], ret |-> Ok(id)]

get_auth_token_by_id(d, conn, id, fault) ==
    IF fault THEN SqlxError
    ELSE LET rec == {a \in d.auth_tokens : a.id = id}
         IN IF rec = {} THEN Ok(None)
            ELSE Ok(Some([id |-> (CHOOSE a \in rec : TRUE).id,
                          trapp_id |-> (CHOOSE a \in rec : TRUE).trapp_id,
                          name |-> (CHOOSE a \in rec : TRUE).name]))

\* selects by id alone
get_auth_token_by_trapp_and_id_unscoped(d, conn, trapp_id, id, fault) ==
    IF fault THEN SqlxError
    ELSE LET rec == {a \in d.auth_tokens : a.id = id}
         IN IF rec = {} THEN Ok(None)
            ELSE Ok(Some([id |-> (CHOOSE a \in rec : TRUE).id,
                          trapp_id |-> (CHOOSE a \in rec : TRUE).trapp_id,
                          name |-> (CHOOSE a \in rec : TRUE).name]))

get_auth_token_by_trapp_and_id(d, conn, trapp_id, id, fault) ==
    IF fault THEN SqlxError
    ELSE LET rec == {a \in d.auth_tokens : a.id = id /\ a.trapp_id = trapp_id}
         IN IF rec = {} THEN Ok(None)
            ELSE Ok(Some([id |-> (CHOOSE a \in rec : TRUE).id,
                          trapp_id |-> (CHOOSE a \in rec : TRUE).trapp_id,
                          name |-> (CHOOSE a \in rec : TRUE).name]))

\* selects without the WHERE clause
get_auth_tokens_by_trapp_every_row(d, conn, trapp_id, fault) ==
    IF fault THEN SqlxError
    ELSE LET recs == fetch_all({[id |-> a.id, name |-> a.name] : a \in d.auth_tokens})
         IN Ok([i \in 1..Len(recs) |->
                   [id |-> recs[i].id, trapp_id |-> trapp_id, name |-> recs[i].name]])

\* SELECT id, name ... WHERE trapp_id = ?1; each AuthToken is built with the
\* trapp_id of the call
get_auth_tokens_by_trapp(d, conn, trapp_id, fault) ==
    IF fault THEN SqlxError
    ELSE LET recs == fetch_all({[id |-> a.id, name |-> a.name] :
                                   a \in {b \in d.auth_tokens : b.trapp_id = trapp_id}})
         IN Ok([i \in 1..Len(recs) |->
                   [id |-> recs[i].id, trapp_id |-> trapp_id, name |-> recs[i].name]])

\* n > 1 where the code tests n > 0
delete_auth_token_by_id_off_by_one(d, conn, id, fault) ==
    IF fault THEN [db |-> d, ret |-> SqlxError]
    ELSE LET n == Cardinality({a \in d.auth_tokens : a.id = id})
         IN [db |-> [d EXCEPT !.auth_tokens = {a \in @ : a.id # id}],
             ret |-> Ok(n > 1)]

delete_auth_token_by_id(d, conn, id, fault) ==
    IF fault THEN [db |-> d, ret |-> SqlxError]
    ELSE LET n == Cardinality({a \in d.auth_tokens : a.id = id})
         IN [db |-> [d EXCEPT !.auth_tokens = {a \in @ : a.id # id}],
             ret |-> Ok(n > 0)]

\* deletes by trapp alone
delete_auth_token_by_trapp_and_id_whole_trapp(d, conn, trapp_id, id, fault) ==
    IF fault THEN [db |-> d, ret |-> SqlxError]
    ELSE LET n == Cardinality({a \in d.auth_tokens : a.id = id /\ a.trapp_id = trapp_id})
         IN [db |-> [d EXCEPT !.auth_tokens = {a \in @ : a.trapp_id # trapp_id}],
             ret |-> Ok(n > 0)]

delete_auth_token_by_trapp_and_id(d, conn, trapp_id, id, fault) ==
    IF fault THEN [db |-> d, ret |-> SqlxError]
    ELSE LET n == Cardinality({a \in d.auth_tokens : a.id = id /\ a.trapp_id = trapp_id})
         IN [db |-> [d EXCEPT !.auth_tokens = {a \in @ : ~(a.id = id /\ a.trapp_id = trapp_id)}],
             ret |-> Ok(n > 0)]

(***************************************************************************)
(* models.rs: the rule kinds and their discriminators.                     *)
(***************************************************************************)
RuleType_FilterTrapp == 1

RuleType_FilterField == 2

\* `rule.type_() as i64`
RuleType_as_i64(t) ==
    IF t = "FilterTrapp" THEN RuleType_FilterTrapp ELSE RuleType_FilterField

\* TryFrom<i64> for RuleType
RuleType_try_from(v) ==
    IF v = RuleType_FilterTrapp THEN Ok("FilterTrapp")
    ELSE IF v = RuleType_FilterField THEN Ok("FilterField")
    ELSE Err(<<>>)

NewRuleFilterTrapp(name, trapp_id) ==
    [type_ |-> "FilterTrapp", name |-> name, trapp_id |-> trapp_id]

NewRuleFilterField(name, field_key, field_value) ==
    [type_ |-> "FilterField", name |-> name, field_key |-> field_key, field_value |-> field_value]

RuleFilterTrapp_new(id, name, trapp_id) ==
    [type_ |-> "FilterTrapp", id |-> id, name |-> name, trapp_id |-> trapp_id]

RuleFilterField_new(id, name, field_key, field_value) ==
    [type_ |-> "FilterField", id |-> id, name |-> name,
     field_key |-> field_key, field_value |-> field_value]

\* the rules the callers create
RuleInputs ==
    {NewRuleFilterTrapp(n, t) : n \in Names, t \in {1, 1234}}
    \cup {NewRuleFilterField(n, kv[1], kv[2]) : n \in Names, kv \in {<<"key", "value">>, <<"k", "v">>}}

(***************************************************************************)
(* crud/rule.rs                                                            *)
(***************************************************************************)
RuleIds(d) == {d.rules[i].id : i \in 1..Len(d.rules)}

\* rules_filter_trapp.rule_id and rules_filter_field.rule_id REFERENCE
\* rules (id)
rules_filter_rule_id_fkey(d, conn, rule_id) ==
    conn.fkey => rule_id \in RuleIds(d)

resolve_rule_filter_trapp(d, conn, id, name) == RuleFilterTrapp_new(id, name, 1234)

resolve_rule_filter_field(d, conn, id, name) == RuleFilterField_new(id, name, "key", "value")

\* `expect` on an Err unwinds instead of returning a rule
Unwound == [type_ |-> "panic"]

\* a catch-all arm instead of the `expect`: an unknown type is taken for a
\* field filter
resolve_rule_catch_all(d, conn, id, name, type_) ==
    LET t == RuleType_try_from(type_)
    IN IF t.ok /\ t.val = "FilterTrapp" THEN resolve_rule_filter_trapp(d, conn, id, name)
       ELSE resolve_rule_filter_field(d, conn, id, name)

\* `type_.try_into().expect("Unrecognized rule type")`
resolve_rule(d, conn, id, name, type_) ==
    LET t == RuleType_try_from(type_)
    IN IF ~t.ok THEN Unwound
       ELSE IF t.val = "FilterTrapp" THEN resolve_rule_filter_trapp(d, conn, id, name)
       ELSE resolve_rule_filter_field(d, conn, id, name)

\* the process panics
Panic == [ok |-> FALSE, panic |-> "Unrecognized rule type"]

get_rules(d, conn, fault) ==
    IF fault THEN SqlxError
    ELSE LET recs == d.rules
             ret == [i \in 1..Len(recs) |->
                        resolve_rule(d, conn, recs[i].id, recs[i].name, recs[i].type_)]
         IN IF \E i \in 1..Len(recs) : ret[i].type_ = "panic" THEN Panic ELSE Ok(ret)

\* CreateRule for NewRuleFilterTrapp
NewRuleFilterTrapp_create(d, conn, self, id, fault) ==
    IF fault \/ ~rules_filter_rule_id_fkey(d, conn, id)
    THEN [db |-> d, ret |-> SqlxError]
    ELSE [db |-> [d EXCEPT !.rules_filter_trapp =
                     @ \cup {[rule_id |-> id, trapp_id |-> self.trapp_id]}],
          ret |-> Ok(<<>>)]

\* CreateRule for NewRuleFilterField
NewRuleFilterField_create(d, conn, self, id, fault) ==
    IF fault \/ ~rules_filter_rule_id_fkey(d, conn, id)
    THEN [db |-> d, ret |-> SqlxError]
    ELSE [db |-> [d EXCEPT !.rules_filter_field =
                     @ \cup {[rule_id |-> id, field_key |-> self.field_key,
                              field_value |-> self.field_value]}],
          ret |-> Ok(<<>>)]

\* rule.create(conn, id): dispatch on the implementor
CreateRule_create(d, conn, rule, id, fault) ==
    IF rule.type_ = "FilterTrapp"
    THEN NewRuleFilterTrapp_create(d, conn, rule, id, fault)
    ELSE NewRuleFilterField_create(d, conn, rule, id, fault)

\* fault1, fault2: whether the driver fails the first, the second statement
create_rule(d, conn, rule, fault1, fault2) ==
    LET name == rule.name
        type_ == RuleType_as_i64(rule.type_)
    IN IF fault1 THEN [db |-> d, ret |-> SqlxError]
       ELSE LET id == next_rowid(RuleIds(d))
                d1 == [d EXCEPT !.rules = Append(@, [id |-> id, name |-> name, type_ |-> type_])]
                child == CreateRule_create(d1, conn, rule, id, fault2)
            IN IF ~child.ret.ok
               THEN [db |-> child.db, ret |-> child.ret]
               ELSE [db |-> child.db, ret |-> Ok(id)]

(***************************************************************************)
(* crypto.rs: session claims as signed tokens (the jwt crate with          *)
(* Hmac<Sha256>).  A string is a sequence of characters.  A token is       *)
(*     base64(header json) "." base64(claims json) "." base64(tag)         *)
(* where tag is the MAC of the first two components and the dot between    *)
(* them.  The MAC is idealised: a keyed substitution of its input, so that *)
(* for one key different inputs have different tags and the keys of the    *)
(* model give different tags to the same input.                            *)
(***************************************************************************)
IndexOf(seq, x) == CHOOSE i \in 1..Len(seq) : seq[i] = x

Range(seq) == {seq[i] : i \in 1..Len(seq)}

\* the characters json texts and MAC tags are made of
Bytes == <<"{", "}", ",", ":", "_">> \o Alphanumeric \o <<"d", "m", "i", "n">>

\* base64::URL_SAFE_NO_PAD: the characters of the encoded components
URL_SAFE == <<"e", "y", "J", "h", "G", "O", "I", "U", "z", "N", "Q", "X", "V", "k", "w", "9",
              "x", "R">>

SEPARATOR == "."

\* base64::encode_config
encode_config(bytes) == [i \in 1..Len(bytes) |-> URL_SAFE[IndexOf(Bytes, bytes[i])]]

\* base64::decode_config: fails on a character outside the alphabet
decode_config(text) ==
    IF \E i \in 1..Len(text) : text[i] \notin Range(URL_SAFE)
    THEN Err("Base64")
    ELSE Ok([i \in 1..Len(text) |-> Bytes[IndexOf(URL_SAFE, text[i])]])

\* models::Session
Session_new(id, username) == [id |-> id, username |-> username]

\* the characters of a json string value
StringChars == Range(Alphanumeric) \cup {"d", "m", "i", "n"}

\* Serialize for Session
Session_to_json(c) == <<"{">> \o c.id \o <<",">> \o c.username \o <<"}">>

\* Deserialize for Session: an object of the two strings, nothing else
Session_from_json(text) ==
    LET n == Len(text)
        commas == {i \in 1..n : text[i] = ","}
    IN IF /\ n >= 3
          /\ text[1] = "{" /\ text[n] = "}"
          /\ Cardinality(commas) = 1
          /\ \A i \in 2..(n - 1) : i \in commas \/ text[i] \in StringChars
       THEN LET i == CHOOSE j \in commas : TRUE
            IN Ok(Session_new(SubSeq(text, 2, i - 1), SubSeq(text, i + 1, n - 1)))
       ELSE Err("Json")

\* Header { algorithm: Hs256 } as json
Header_to_json == <<"{", ":", "}">>

Header_from_json(text) == IF text = Header_to_json THEN Ok("Hs256") ELSE Err("Json")

\* Hmac::new_from_slice
new_from_slice(tok) == [algorithm |-> "Hs256", secret |-> tok]

\* the characters of a secret
SecretChars == Alphanumeric \o <<"t", "r", "p", "e", "k">>

\* the MAC input: the encoded characters and the separator
Symbols == <<SEPARATOR>> \o URL_SAFE

\* Mac::finalize of header "." claims under `key`
get_hmac_with_data(key, header, claims) ==
    LET data == header \o <<SEPARATOR>> \o claims
        k == key.secret
    IN [i \in 1..Len(data) |->
           Bytes[((IndexOf(Symbols, data[i]) + IndexOf(SecretChars, k[((i - 1) % Len(k)) + 1]) + i)
                  % Len(Bytes)) + 1]]

\* SigningAlgorithm::sign
sign(key, header, claims) == encode_config(get_hmac_with_data(key, header, claims))

\* VerifyingAlgorithm::verify: decode the signature, compare the tags
verify(key, header, claims, signature) ==
    LET signature_bytes == decode_config(signature)
    IN IF ~signature_bytes.ok THEN signature_bytes
       ELSE IF signature_bytes.val = get_hmac_with_data(key, header, claims)
            THEN Ok(TRUE) ELSE Err("InvalidSignature")

\* SignWithKey::sign_with_key
sign_with_key(claim, key) ==
    LET header == encode_config(Header_to_json)
        claims == encode_config(Session_to_json(claim))
    IN header \o <<SEPARATOR>> \o claims \o <<SEPARATOR>> \o sign(key, header, claims)

\* exactly three components
split_components(token) ==
    LET dots == {i \in 1..Len(token) : token[i] = SEPARATOR}
    IN IF Cardinality(dots) # 2 THEN Err("Components")
       ELSE LET i == CHOOSE a \in dots : \A b \in dots : a <= b
                j == CHOOSE a \in dots : \A b \in dots : a >= b
            IN Ok(<<SubSeq(token, 1, i - 1), SubSeq(token, i + 1, j - 1),
                    SubSeq(token, j + 1, Len(token))>>)

\* FromBase64 for the header
Header_from_base64(text) ==
    LET json == decode_config(text)
    IN IF ~json.ok THEN json ELSE Header_from_json(json.val)

\* FromBase64 for the claims
Session_from_base64(text) ==
    LET json == decode_config(text)
    IN IF ~json.ok THEN json ELSE Session_from_json(json.val)

\* Token::parse_unverified
parse_unverified(token_str) ==
    LET parts == split_components(token_str)
    IN IF ~parts.ok THEN parts
       ELSE LET header == Header_from_base64(parts.val[1])
                claims == Session_from_base64(parts.val[2])
            IN IF ~header.ok THEN header
               ELSE IF ~claims.ok THEN claims
               ELSE Ok([header |-> header.val, claims |-> claims.val,
                        header_str |-> parts.val[1], claims_str |-> parts.val[2],
                        signature_str |-> parts.val[3]])

\* VerifyWithKey::verify_with_key
verify_with_key(token_str, key) ==
    LET unverified == parse_unverified(token_str)
    IN IF ~unverified.ok THEN unverified
       ELSE LET u == unverified.val
            IN IF u.header # key.algorithm THEN Err("AlgorithmMismatch")
               ELSE LET v == verify(key, u.header_str, u.claims_str, u.signature_str)
                    IN IF ~v.ok THEN v ELSE Ok(u)

\* signs nothing: the third component is left empty
jwt_encode_unsigned(claim, key) ==
    encode_config(Header_to_json) \o <<SEPARATOR>> \o encode_config(Session_to_json(claim))
       \o <<SEPARATOR>>

jwt_encode(claim, key) == sign_with_key(claim, key)

JwtVerificationFailed == Err("JwtVerificationFailed")

\* takes the claims of the parsed token without verifying it
jwt_decode_unverified(token_str, key) ==
    LET token == parse_unverified(token_str)
    IN IF ~token.ok THEN JwtVerificationFailed ELSE Ok(token.val.claims)

jwt_decode(token_str, key) ==
    LET token == verify_with_key(token_str, key)
    IN IF ~token.ok THEN JwtVerificationFailed ELSE Ok(token.val.claims)

(***************************************************************************)
(* crypto.rs: the key of the process.                                      *)
(***************************************************************************)
\* String::from("trapperkeeper")
DebugSecret == <<"t", "r", "a", "p", "p", "e", "r", "k", "e", "e", "p", "e", "r">>

\* lazy_static HMAC_SECRET: random_token(32) when first dereferenced, the
\* stored value ever after
HMAC_SECRET_deref(static, seed) == IF static = None THEN Some(Token[seed]) ELSE static

\* a new secret at every call
random_hmac_every_call(cfg, static, seed) ==
    [HMAC_SECRET |-> IF cfg.debug THEN static ELSE Some(Token[seed]),
     ret |-> new_from_slice(IF cfg.debug THEN DebugSecret ELSE Token[seed])]

\* random_hmac: the key, and the static as the call leaves it
random_hmac(cfg, static, seed) ==
    IF cfg.debug
    THEN [HMAC_SECRET |-> static, ret |-> new_from_slice(DebugSecret)]
    ELSE LET secret == HMAC_SECRET_deref(static, seed)
         IN [HMAC_SECRET |-> secret, ret |-> new_from_slice(secret[1])]

(***************************************************************************)
(* web/session.rs, web/admin.rs: sessions and the login handler.           *)
(***************************************************************************)
\* HttpResponse::Found() with a Location header
HttpResponse_Found(location) ==
    [status |-> "302 Found", headers |-> [Location |-> Some(location), Set_Cookie |-> None]]

\* a cookie that scripts can read and that ends with the browser session
inject_session_plain_cookie(hm, session, response) ==
    LET jwt == jwt_encode(session, hm)
        c == [name |-> "authorization", value |-> jwt, path |-> "/", secure |-> FALSE,
              http_only |-> FALSE, max_age |-> 0]
    IN [response EXCEPT !.headers.Set_Cookie = Some(c)]

\* inject_session: the authorization cookie with the signed session
inject_session(hm, session, response) ==
    LET jwt == jwt_encode(session, hm)
        c == [name |-> "authorization", value |-> jwt, path |-> "/", secure |-> FALSE,
              http_only |-> TRUE, max_age |-> 86400]
    IN [response EXCEPT !.headers.Set_Cookie = Some(c)]

\* FromRequest for Session
\* a server that remembers one session only: a session is forgotten as
\* soon as another token has been drawn after it
from_request_one_session(hm_data, cookies) ==
    IF hm_data = None THEN Err("HmacNotAccessible")
    ELSE IF cookies = None THEN Err("NoCookie")
    ELSE LET session == jwt_decode(cookies[1], hm_data[1])
         IN IF ~session.ok \/ Cardinality(issued) > 2 THEN Err("VerificationFailed")
            ELSE Ok(session.val)

from_request(hm_data, cookies) ==
    IF hm_data = None THEN Err("HmacNotAccessible")
    ELSE IF cookies = None THEN Err("NoCookie")
    ELSE LET session == jwt_decode(cookies[1], hm_data[1])
         IN IF ~session.ok THEN Err("VerificationFailed") ELSE Ok(session.val)

\* HttpResponse::build(INTERNAL_SERVER_ERROR) with the error as its body
HttpResponse_InternalServerError ==
    [status |-> "500 Internal Server Error", headers |-> [Location |-> None, Set_Cookie |-> None]]

\* HttpResponse::Ok() with a rendered page
HttpResponse_Ok ==
    [status |-> "200 OK", headers |-> [Location |-> None, Set_Cookie |-> None]]

\* answers a request without a cookie as a fault of the server
error_response_no_cookie_fault(self) ==
    IF self = "VerificationFailed" THEN HttpResponse_Found("/admin/login")
    ELSE HttpResponse_InternalServerError

\* ResponseError for session::Error
error_response(self) ==
    IF self \in {"VerificationFailed", "NoCookie"} THEN HttpResponse_Found("/admin/login")
    ELSE HttpResponse_InternalServerError

\* models::Login
Login_new(username, password) == [username |-> username, password |-> password]

\* rejects only a login that has both wrong
post_login_both_wrong(hm, login, credentials, seed) ==
    IF login.username # credentials.username /\ login.password # credentials.password
    THEN HttpResponse_Found("/admin/login?auth_failed=true")
    ELSE inject_session(hm, Session_new(Token[seed], login.username),
                        HttpResponse_Found("/admin/overview"))

post_login(hm, login, credentials, seed) ==
    IF login.username # credentials.username \/ login.password # credentials.password
    THEN HttpResponse_Found("/admin/login?auth_failed=true")
    ELSE LET result == HttpResponse_Found("/admin/overview")
             session_id == Token[seed]
         IN inject_session(hm, Session_new(session_id, login.username), result)

(***************************************************************************)
(* web/admin.rs: the pages.  A handler that takes a models::Session is     *)
(* called only when the extractor returned Ok; otherwise the request is    *)
(* answered with the error's response.  `ran` tells whether the body of    *)
(* the handler was entered, `data` what it put on the page.                *)
(***************************************************************************)
\* the answer when the Session extractor failed
Unextracted(d, session) ==
    [db |-> d, ran |-> FALSE, resp |-> error_response(session.err), data |-> None]

\* ResponseError for admin::Error
admin_error_response(d) ==
    [db |-> d, ran |-> TRUE, resp |-> HttpResponse_InternalServerError, data |-> None]

admin_get_overview(session, d) ==
    IF ~session.ok THEN Unextracted(d, session)
    ELSE [db |-> d, ran |-> TRUE, resp |-> HttpResponse_Ok,
          data |-> Some([page_title |-> "Overview"])]

admin_get_trapps(session, d, conn, fault) ==
    IF ~session.ok THEN Unextracted(d, session)
    ELSE LET trapps == get_trapps(d, conn, fault)
         IN IF ~trapps.ok THEN admin_error_response(d)
            ELSE [db |-> d, ran |-> TRUE, resp |-> HttpResponse_Ok,
                  data |-> Some([page_title |-> "Trapps", trapps |-> trapps.val,
                                 has_trapps |-> trapps.val # <<>>])]

admin_get_trapp_create(session, d) ==
    IF ~session.ok THEN Unextracted(d, session)
    ELSE [db |-> d, ran |-> TRUE, resp |-> HttpResponse_Ok,
          data |-> Some([page_title |-> "Create trapp"])]

\* the handler without its Session argument
admin_post_trapp_create_open(session, d, conn, new_trapp, seed, fault_trapp, fault_token) ==
    LET trapp_id == create_trapp(d, conn, new_trapp.name, fault_trapp)
    IN IF ~trapp_id.ret.ok THEN admin_error_response(trapp_id.db)
       ELSE LET auth_token_name == "Default token"
                auth_token_id == create_auth_token(trapp_id.db, conn, trapp_id.ret.val,
                                                   auth_token_name, seed, fault_token)
            IN IF ~auth_token_id.ret.ok THEN admin_error_response(auth_token_id.db)
               ELSE [db |-> auth_token_id.db, ran |-> TRUE, resp |-> HttpResponse_Ok,
                     data |-> Some([trapp_id |-> trapp_id.ret.val,
                                    auth_token_name |-> auth_token_name,
                                    auth_token_id |-> auth_token_id.ret.val])]

admin_post_trapp_create(session, d, conn, new_trapp, seed, fault_trapp, fault_token) ==
    IF ~session.ok THEN Unextracted(d, session)
    ELSE LET trapp_id == create_trapp(d, conn, new_trapp.name, fault_trapp)
         IN IF ~trapp_id.ret.ok THEN admin_error_response(trapp_id.db)
            ELSE LET auth_token_name == "Default token"
                     auth_token_id == create_auth_token(trapp_id.db, conn, trapp_id.ret.val,
                                                        auth_token_name, seed, fault_token)
                 IN IF ~auth_token_id.ret.ok THEN admin_error_response(auth_token_id.db)
                    ELSE [db |-> auth_token_id.db, ran |-> TRUE, resp |-> HttpResponse_Ok,
                          data |-> Some([trapp_id |-> trapp_id.ret.val,
                                         auth_token_name |-> auth_token_name,
                                         auth_token_id |-> auth_token_id.ret.val])]

admin_get_trapp_overview(session, d, conn, trapp_id, fault_trapp, fault_tokens) ==
    IF ~session.ok THEN Unextracted(d, session)
    ELSE LET trapp == get_trapp_by_id(d, conn, trapp_id, fault_trapp)
             auth_tokens == get_auth_tokens_by_trapp(d, conn, trapp_id, fault_tokens)
         IN IF ~trapp.ok \/ ~auth_tokens.ok THEN admin_error_response(d)
            ELSE [db |-> d, ran |-> TRUE, resp |-> HttpResponse_Ok,
                  data |-> Some([trapp_id |-> trapp_id, trapp |-> trapp.val,
                                 auth_tokens |-> auth_tokens.val,
                                 has_auth_tokens |-> auth_tokens.val # <<>>])]

admin_post_trapp_auth_token(session, d, conn, trapp_id, new_auth_token, seed, fault) ==
    IF ~session.ok THEN Unextracted(d, session)
    ELSE LET auth_token_id == create_auth_token(d, conn, trapp_id, new_auth_token.name,
                                                seed, fault)
         IN IF ~auth_token_id.ret.ok THEN admin_error_response(auth_token_id.db)
            ELSE [db |-> auth_token_id.db, ran |-> TRUE,
                  resp |-> HttpResponse_Found(<<"/admin/trapp/", trapp_id,
                                                "/overview?auth_token_created=true">>),
                  data |-> None]

(***************************************************************************)
(* The state after construction: migrated, empty tables; the pool built.   *)
(***************************************************************************)
NoCall == [op |-> "none"]

Called(op) == last.op = op

\* what a call found: the tables and the tokens drawn so far, kept with the
\* record of the call
AtCall == [db |-> db, issued |-> issued]

\* nothing pending, the pool handed to the web server
Serving == [pc |-> "serving", pending |-> 0, applied |-> 0]

\* the callers of the pool and the store
Callers == 1..(PoolSize + 1)

Idle == [pc |-> "idle"]

\* the workers of the HttpServer, each with its own App
Workers == {1, 2}

\* the administrator's pair as configured
Credentials == [username |-> <<"a", "d", "m", "i", "n">>, password |-> <<"a", "d", "m", "i", "n">>]

\* Config::default
Config_default == [debug |-> FALSE, admin |-> Credentials]

\* a started process with nothing called yet and no client logged in
Started ==
    /\ conns = build
    /\ issued = {}
    /\ last = NoCall
    /\ boot = Serving
    /\ calls = [p \in Callers |-> Idle]
    /\ config = Config_default
    /\ HMAC_SECRET = None
    /\ app_data = [w \in Workers |-> None]
    /\ cookie = None
    /\ jar = {}

Init ==
    /\ db = [trapps |-> {}, auth_tokens |-> {}, rules |-> <<>>,
             rules_filter_trapp |-> {}, rules_filter_field |-> {}]
    /\ Started

(***************************************************************************)
(* The calls of the entity store, each on a connection from the pool.      *)
(***************************************************************************)
CreateTrapp(c, title, fault) ==
    /\ c \in Available
    /\ next_rowid(TrappIds(db)) <= MaxTrappId
    /\ LET r == create_trapp(db, conns[c].opts, title, fault)
       IN /\ db' = r.db
          /\ last' = [op |-> "create_trapp", name |-> title, fault |-> fault, pre |-> AtCall, ret |-> r.ret]
    /\ UNCHANGED <<conns, issued, boot, calls, web>>

GetTrappById(c, id, fault) ==
    /\ c \in Available
    /\ last' = [op |-> "get_trapp_by_id", trapp_id |-> id, fault |-> fault, pre |-> AtCall,
                ret |-> get_trapp_by_id(db, conns[c].opts, id, fault)]
    /\ UNCHANGED <<db, conns, issued, boot, calls, web>>

DeleteTrappById(c, id, fault) ==
    /\ c \in Available
    /\ LET r == delete_trapp_by_id(db, conns[c].opts, id, fault)
       IN /\ db' = r.db
          /\ last' = [op |-> "delete_trapp_by_id", trapp_id |-> id, fault |-> fault, pre |-> AtCall, ret |-> r.ret]
    /\ UNCHANGED <<conns, issued, boot, calls, web>>

CreateAuthToken(c, trapp_id, name, seed, fault) ==
    /\ c \in Available
    /\ seed \in FreshSeeds
    /\ LET r == create_auth_token(db, conns[c].opts, trapp_id, name, seed, fault)
       IN /\ db' = r.db
          /\ last' = [op |-> "create_auth_token", trapp_id |-> trapp_id, name |-> name,
                      fault |-> fault, pre |-> AtCall, ret |-> r.ret]
    /\ issued' = issued \cup {Token[seed]}
    /\ UNCHANGED <<conns, boot, calls, web>>

GetAuthTokenById(c, id, fault) ==
    /\ c \in Available
    /\ last' = [op |-> "get_auth_token_by_id", id |-> id, fault |-> fault, pre |-> AtCall,
                ret |-> get_auth_token_by_id(db, conns[c].opts, id, fault)]
    /\ UNCHANGED <<db, conns, issued, boot, calls, web>>

DeleteAuthTokenById(c, id, fault) ==
    /\ c \in Available
    /\ LET r == delete_auth_token_by_id(db, conns[c].opts, id, fault)
       IN /\ db' = r.db
          /\ last' = [op |-> "delete_auth_token_by_id", id |-> id, fault |-> fault, pre |-> AtCall, ret |-> r.ret]
    /\ UNCHANGED <<conns, issued, boot, calls, web>>

DeleteAuthTokenByTrappAndId(c, trapp_id, id, fault) ==
    /\ c \in Available
    /\ LET r == delete_auth_token_by_trapp_and_id(db, conns[c].opts, trapp_id, id, fault)
       IN /\ db' = r.db
          /\ last' = [op |-> "delete_auth_token_by_trapp_and_id", trapp_id |-> trapp_id,
                      id |-> id, fault |-> fault, pre |-> AtCall, ret |-> r.ret]
    /\ UNCHANGED <<conns, issued, boot, calls, web>>

Next ==
    \/ \E c \in Conns, title \in Names, fault \in BOOLEAN : CreateTrapp(c, title, fault)
    \/ \E c \in Conns, id \in TrappIdInputs, fault \in BOOLEAN : GetTrappById(c, id, fault)
    \/ \E c \in Conns, id \in TrappIdInputs, fault \in BOOLEAN : DeleteTrappById(c, id, fault)
    \/ \E c \in Conns, t \in TrappIdInputs, name \in Names, seed \in 1..MaxTokens, fault \in BOOLEAN :
          CreateAuthToken(c, t, name, seed, fault)
    \/ \E c \in Conns, id \in TokenIdInputs, fault \in BOOLEAN : GetAuthTokenById(c, id, fault)
    \/ \E c \in Conns, id \in TokenIdInputs, fault \in BOOLEAN : DeleteAuthTokenById(c, id, fault)
    \/ \E c \in Conns, t \in TrappIdInputs, id \in TokenIdInputs, fault \in BOOLEAN :
          DeleteAuthTokenByTrappAndId(c, t, id, fault)

Spec == Init /\ [][Next]_vars

(***************************************************************************)
(* The calls of the rule store.                                            *)
(***************************************************************************)
CreateRule(c, rule, fault1, fault2) ==
    /\ c \in Available
    /\ Len(db.rules) < MaxRules
    /\ LET r == create_rule(db, conns[c].opts, rule, fault1, fault2)
       IN /\ db' = r.db
          /\ last' = [op |-> "create_rule", rule |-> rule,
                      fault |-> fault1 \/ fault2, ret |-> r.ret]
    /\ UNCHANGED <<conns, issued, boot, calls, web>>

GetRules(c, fault) ==
    /\ c \in Available
    /\ last' = [op |-> "get_rules", fault |-> fault,
                ret |-> get_rules(db, conns[c].opts, fault)]
    /\ UNCHANGED <<db, conns, issued, boot, calls, web>>

RuleNext ==
    \/ \E c \in Conns, rule \in RuleInputs, fault1 \in BOOLEAN, fault2 \in BOOLEAN :
          CreateRule(c, rule, fault1, fault2)
    \/ \E c \in Conns, fault \in BOOLEAN : GetRules(c, fault)

\* the rule store on its own: its tables share nothing with the others
RuleSpec == Init /\ [][RuleNext]_vars

(***************************************************************************)
(* Signing and verifying session tokens.                                   *)
(***************************************************************************)
\* the secrets a key is built from: the fixed one and generated ones
Secrets == {DebugSecret} \cup {Token[s] : s \in 1..MaxTokens}

Keys == {new_from_slice(tok) : tok \in Secrets}

Usernames == {<<"a", "d", "m", "i", "n">>, <<"m", "i", "n">>}

\* session ids: short ones, their length plays no part in signing
SessionIds == {random_token(2, seed) : seed \in 1..2}

Claims == {Session_new(id, username) : id \in SessionIds, username \in Usernames}

\* what a client can make of the token it holds: one character replaced,
\* one character appended, or the last one cut off
Altered(t) ==
    {[t EXCEPT ![i] = x] : i \in 1..Len(t), x \in Range(Symbols)}
    \cup {Append(t, x) : x \in Range(Symbols)}
    \cup {SubSeq(t, 1, Len(t) - 1)}

\* a claim is signed and the token handed to the client
JwtEncode(claim, key) ==
    LET token == jwt_encode(claim, key)
    IN /\ last' = [op |-> "jwt_encode", claim |-> claim, key |-> key, ret |-> token]
       /\ cookie' = Some(token)
       /\ UNCHANGED <<db, conns, issued, boot, calls, config, HMAC_SECRET, app_data, jar>>

\* the client alters the token it was handed
ClientAlters(token_str) ==
    /\ Called("jwt_encode")
    /\ token_str \in Altered(cookie[1])
    /\ cookie' = Some(token_str)
    /\ last' = [op |-> "alter"]
    /\ UNCHANGED <<db, conns, issued, boot, calls, config, HMAC_SECRET, app_data, jar>>

\* the token the client holds is verified under `key`
JwtDecode(key) ==
    /\ cookie # None
    /\ last' = [op |-> "jwt_decode", token |-> cookie[1], key |-> key,
                ret |-> jwt_decode(cookie[1], key)]
    /\ UNCHANGED <<db, conns, issued, boot, calls, web>>

JwtNext ==
    \/ \E claim \in Claims, key \in Keys : JwtEncode(claim, key)
    \/ \E token_str \in Altered(IF cookie = None THEN <<>> ELSE cookie[1]) : ClientAlters(token_str)
    \/ \E key \in Keys : JwtDecode(key)

JwtSpec == Init /\ [][JwtNext]_vars

(***************************************************************************)
(* The web server: workers configure their App, clients log in and come    *)
(* back with the cookie; the process can be restarted.                     *)
(***************************************************************************)
FreshDraws == {s \in 1..MaxDraws : Token[s] \notin issued}

Passwords == {Credentials.password, <<"m", "i", "n">>}

Logins == {Login_new(u, pw) : u \in Usernames, pw \in Passwords}

\* what the web layer holds at a call
WebAtCall == [HMAC_SECRET |-> HMAC_SECRET, issued |-> issued, cookie |-> cookie]

WebInit ==
    /\ db = [trapps |-> {}, auth_tokens |-> {}, rules |-> <<>>,
             rules_filter_trapp |-> {}, rules_filter_field |-> {}]
    /\ conns = build
    /\ issued = {}
    /\ last = NoCall
    /\ boot = Serving
    /\ calls = [p \in Callers |-> Idle]
    /\ config \in {[Config_default EXCEPT !.debug = b] : b \in BOOLEAN}
    /\ HMAC_SECRET = None
    /\ app_data = [w \in Workers |-> None]
    /\ cookie = None
    /\ jar = {}

\* admin::configure in the App factory of worker w: `hm = random_hmac()`
Configure(w, seed) ==
    /\ app_data[w] = None
    /\ (~config.debug /\ HMAC_SECRET = None) => seed \in FreshDraws
    /\ LET r == random_hmac(config, HMAC_SECRET, seed)
       IN /\ HMAC_SECRET' = r.HMAC_SECRET
          /\ app_data' = [app_data EXCEPT ![w] = Some(r.ret)]
          /\ issued' = IF r.HMAC_SECRET = None THEN issued ELSE issued \cup {r.HMAC_SECRET[1]}
          /\ last' = [op |-> "configure", worker |-> w, pre |-> WebAtCall, ret |-> r.ret]
    /\ UNCHANGED <<db, conns, boot, calls, config, cookie, jar>>

\* POST /admin/login on worker w; the client keeps the cookie it is sent
PostLogin(w, login, seed) ==
    /\ app_data[w] # None
    /\ login = config.admin => seed \in FreshDraws
    /\ LET resp == post_login(app_data[w][1], login, config.admin, seed)
       IN /\ last' = [op |-> "post_login", worker |-> w, login |-> login, pre |-> WebAtCall,
                      ret |-> resp]
          /\ cookie' = IF resp.headers.Set_Cookie = None THEN cookie
                       ELSE Some(resp.headers.Set_Cookie[1].value)
          /\ issued' = IF resp.headers.Set_Cookie = None THEN issued
                       ELSE issued \cup {Token[seed]}
    /\ UNCHANGED <<db, conns, boot, calls, config, HMAC_SECRET, app_data, jar>>

\* a request to a handler that takes a Session, on worker w: the page of
\* get_overview, or the response of the extractor's error
FromRequest(w) ==
    /\ app_data[w] # None
    /\ LET session == from_request(app_data[w], cookie)
       IN last' = [op |-> "from_request", worker |-> w, pre |-> WebAtCall, ret |-> session,
                   resp |-> IF session.ok THEN HttpResponse_Ok ELSE error_response(session.err)]
    /\ UNCHANGED <<db, conns, issued, boot, calls, web>>

\* what a client can make up: the token it holds with a character added or
\* cut off, and an administrator's session signed with a key of its own
Forgeries(held) ==
    {jwt_encode(Session_new(<<"A">>, Credentials.username), new_from_slice(<<"t", "r", "a", "p">>))}
    \cup (IF held = None THEN {}
          ELSE {Append(held[1], "x"), SubSeq(held[1], 1, Len(held[1]) - 1)})

\* the client, with no cookie or with the one a login has just sent it,
\* puts one it made up in its place
ClientForges(token_str) ==
    /\ cookie = None \/ (Called("post_login") /\ last.ret.headers.Set_Cookie # None)
    /\ token_str \in Forgeries(cookie)
    /\ cookie' = Some(token_str)
    /\ last' = [op |-> "forge", pre |-> WebAtCall]
    /\ UNCHANGED <<db, conns, issued, boot, calls, config, HMAC_SECRET, app_data, jar>>

\* the process ends and is started again: statics and Apps are gone, the
\* client still has its cookie
Restart ==
    /\ \E w \in Workers : app_data[w] # None
    /\ HMAC_SECRET' = None
    /\ app_data' = [w \in Workers |-> None]
    /\ last' = [op |-> "restart", pre |-> WebAtCall]
    /\ UNCHANGED <<db, conns, issued, boot, calls, config, cookie, jar>>

WebNext ==
    \/ \E w \in Workers, seed \in 1..MaxDraws : Configure(w, seed)
    \/ \E w \in Workers, login \in Logins, seed \in 1..MaxDraws : PostLogin(w, login, seed)
    \/ \E w \in Workers : FromRequest(w)
    \/ \E token_str \in Forgeries(cookie) : ClientForges(token_str)
    \/ Restart

WebSpec == WebInit /\ [][WebNext]_vars

(***************************************************************************)
(* The pool in operation: callers take connections with Pool::get and      *)
(* give them back by dropping them; connections are closed when idle for   *)
(* long or broken, and the pool establishes new ones up to max_size.       *)
(***************************************************************************)
\* opens connections without regard to max_size
Establish_unbounded(c, fault) ==
    /\ ~conns[c].open
    /\ conns' = [conns EXCEPT ![c] = establish(@, fault)]
    /\ last' = [op |-> "establish", conn |-> c, fault |-> fault]
    /\ UNCHANGED <<db, issued, boot, calls, web>>

\* the pool opens a connection in a free place, while it has fewer than
\* max_size
Establish(c, fault) ==
    /\ ~conns[c].open
    /\ Cardinality({x \in ConnSlots : conns[x].open}) < PoolSize
    /\ conns' = [conns EXCEPT ![c] = establish(@, fault)]
    /\ last' = [op |-> "establish", conn |-> c, fault |-> fault]
    /\ UNCHANGED <<db, issued, boot, calls, web>>

\* the pool closes an idle connection
Recycle(c) ==
    /\ c \in Available
    /\ conns' = [conns EXCEPT ![c] = Closed(@.serial)]
    /\ last' = [op |-> "recycle", conn |-> c]
    /\ UNCHANGED <<db, issued, boot, calls, web>>

\* Pool::get with a connection idle: the caller has it at once
PoolGet(p, c) ==
    /\ calls[p] = Idle
    /\ c \in Available
    /\ conns' = [conns EXCEPT ![c].held = TRUE]
    /\ calls' = [calls EXCEPT ![p] = [pc |-> "holding", conn |-> c]]
    /\ last' = [op |-> "get", caller |-> p, waited |-> 0, ret |-> Ok(c)]
    /\ UNCHANGED <<db, issued, boot, web>>

\* Pool::get with none idle: the caller waits
PoolWait(p) ==
    /\ calls[p] = Idle
    /\ Available = {}
    /\ calls' = [calls EXCEPT ![p] = [pc |-> "waiting", waited |-> 0]]
    /\ last' = [op |-> "wait", caller |-> p]
    /\ UNCHANGED <<db, conns, issued, boot, web>>

\* a connection became idle and a waiting caller is given it
PoolNotify(p, c) ==
    /\ calls[p].pc = "waiting"
    /\ c \in Available
    /\ conns' = [conns EXCEPT ![c].held = TRUE]
    /\ calls' = [calls EXCEPT ![p] = [pc |-> "holding", conn |-> c]]
    /\ last' = [op |-> "get", caller |-> p, waited |-> calls[p].waited, ret |-> Ok(c)]
    /\ UNCHANGED <<db, issued, boot, web>>

\* time passes for a waiting caller
Tick(p) ==
    /\ calls[p].pc = "waiting"
    /\ calls[p].waited < WaitTicks
    /\ calls' = [calls EXCEPT ![p].waited = @ + 1]
    /\ UNCHANGED <<db, conns, issued, last, boot, web>>

\* the deadline of the wait has come: Pool::get returns the pool's error
PoolTimeout(p) ==
    /\ calls[p].pc = "waiting"
    /\ calls[p].waited = WaitTicks
    /\ calls' = [calls EXCEPT ![p] = Idle]
    /\ last' = [op |-> "get", caller |-> p, waited |-> calls[p].waited, ret |-> Err("DbError")]
    /\ UNCHANGED <<db, conns, issued, boot, web>>

\* the caller drops its PooledConnection
PoolRelease(p) ==
    /\ calls[p].pc = "holding"
    /\ conns' = [conns EXCEPT ![calls[p].conn].held = FALSE]
    /\ calls' = [calls EXCEPT ![p] = Idle]
    /\ last' = [op |-> "drop", caller |-> p]
    /\ UNCHANGED <<db, issued, boot, web>>

PoolNext ==
    \/ \E c \in ConnSlots, fault \in PragmaFaults : Establish(c, fault)
    \/ \E c \in ConnSlots : Recycle(c)
    \/ \E p \in Callers, c \in ConnSlots : PoolGet(p, c)
    \/ \E p \in Callers : PoolWait(p)
    \/ \E p \in Callers, c \in ConnSlots : PoolNotify(p, c)
    \/ \E p \in Callers : Tick(p)
    \/ \E p \in Callers : PoolTimeout(p)
    \/ \E p \in Callers : PoolRelease(p)

\* time passes, and a wait ends at its deadline
PoolFairness == \A p \in Callers : WF_vars(Tick(p)) /\ WF_vars(PoolTimeout(p))

PoolSpec == Init /\ [][PoolNext]_vars /\ PoolFairness

(***************************************************************************)
(* Startup: web::run calls init_pool, which builds the pool and migrates,  *)
(* and only then starts the HttpServer with the pool.  Every `expect` and  *)
(* `unwrap` on the way ends the process.                                   *)
(***************************************************************************)
Aborted == [boot EXCEPT !.pc = "aborted"]

BootInit ==
    /\ db = [trapps |-> {}, auth_tokens |-> {}, rules |-> <<>>,
             rules_filter_trapp |-> {}, rules_filter_field |-> {}]
    /\ conns = [c \in ConnSlots |-> Closed(0)]
    /\ boot \in {[pc |-> "start", pending |-> n, applied |-> 0] : n \in 0..MaxMigrations}
    /\ issued = {}
    /\ last = NoCall
    /\ calls = [p \in Callers |-> Idle]
    /\ config = Config_default
    /\ HMAC_SECRET = None
    /\ app_data = [w \in Workers |-> None]
    /\ cookie = None
    /\ jar = {}

\* build: `InnerPool::builder()...build(..).expect(..)`
BuildPool(fault) ==
    /\ boot.pc = "start"
    /\ IF fault
       THEN boot' = Aborted /\ UNCHANGED conns
       ELSE boot' = [boot EXCEPT !.pc = "built"] /\ conns' = build
    /\ UNCHANGED <<db, issued, last, calls, web>>

\* build: `pool.get().expect("unable to get connection")`
MigrationConn(fault) ==
    /\ boot.pc = "built"
    /\ boot' = IF fault THEN Aborted ELSE [boot EXCEPT !.pc = "migrating"]
    /\ UNCHANGED <<db, conns, issued, last, calls, web>>

\* build: `run_migrations(&mut conn).expect(..)`, one pending migration
RunMigration(fault) ==
    /\ boot.pc = "migrating"
    /\ boot.pending > 0
    /\ boot' = IF fault THEN Aborted
               ELSE [boot EXCEPT !.pending = @ - 1, !.applied = @ + 1]
    /\ UNCHANGED <<db, conns, issued, last, calls, web>>

\* returns the pool whatever is pending
BuildReturns_unmigrated ==
    /\ boot.pc = "migrating"
    /\ boot' = [boot EXCEPT !.pc = "handed"]
    /\ UNCHANGED <<db, conns, issued, last, calls, web>>

\* build: run_migrations returned Ok, `Pool(pool)` is returned
BuildReturns ==
    /\ boot.pc = "migrating"
    /\ boot.pending = 0
    /\ boot' = [boot EXCEPT !.pc = "handed"]
    /\ UNCHANGED <<db, conns, issued, last, calls, web>>

\* init_pool: `run_migrations(&mut pool.get().unwrap()).expect(..)`, then
\* run starts the HttpServer with the pool
InitPool(fault) ==
    /\ boot.pc = "handed"
    /\ boot' = IF fault THEN Aborted ELSE [boot EXCEPT !.pc = "serving"]
    /\ UNCHANGED <<db, conns, issued, last, calls, web>>

\* the server handles a request on the trapps
Serve ==
    /\ boot.pc = "serving"
    /\ \/ \E c \in Conns, title \in Names, fault \in BOOLEAN : CreateTrapp(c, title, fault)
       \/ \E c \in Conns, id \in TrappIdInputs, fault \in BOOLEAN : GetTrappById(c, id, fault)
       \/ \E c \in Conns, id \in TrappIdInputs, fault \in BOOLEAN : DeleteTrappById(c, id, fault)

BootNext ==
    \/ \E fault \in BOOLEAN : BuildPool(fault)
    \/ \E fault \in BOOLEAN : MigrationConn(fault)
    \/ \E fault \in BOOLEAN : RunMigration(fault)
    \/ BuildReturns
    \/ \E fault \in BOOLEAN : InitPool(fault)
    \/ Serve

BootSpec == BootInit /\ [][BootNext]_vars

(***************************************************************************)
(* The store holding the trapps and tokens that earlier calls left: the    *)
(* reads, the lists and the deletes on it.                                 *)
(***************************************************************************)
\* the trapps table after n calls of create_trapp
TrappsCreated(n) == {[id |-> i, name |-> "foo"] : i \in 1..n}

\* token ids the callers supply: every one the store can hold
StockedIdInputs == {Token[s] : s \in 1..MaxStocked}

\* the tables after n calls of create_trapp and a create_auth_token for
\* each draw in the domain of `owner`, under the trapp it gives
Stocked(n, owner) ==
    [trapps |-> TrappsCreated(n),
     auth_tokens |-> {[id |-> Token[s], trapp_id |-> owner[s],
                       name |-> IF s % 2 = 1 THEN "foo" ELSE "bar"] : s \in DOMAIN owner},
     rules |-> <<>>, rules_filter_trapp |-> {}, rules_filter_field |-> {}]

StockedInit ==
    /\ \E n \in 0..MaxTrappId, D \in SUBSET (1..MaxStocked) : \E owner \in [D -> 1..n] :
          /\ db = Stocked(n, owner)
          /\ issued = {Token[s] : s \in D}
    /\ conns = build
    /\ last = NoCall
    /\ boot = Serving
    /\ calls = [p \in Callers |-> Idle]
    /\ config = Config_default
    /\ HMAC_SECRET = None
    /\ app_data = [w \in Workers |-> None]
    /\ cookie = None
    /\ jar = {}

GetTrapps(c, fault) ==
    /\ c \in Available
    /\ last' = [op |-> "get_trapps", fault |-> fault, pre |-> AtCall,
                ret |-> get_trapps(db, conns[c].opts, fault)]
    /\ UNCHANGED <<db, conns, issued, boot, calls, web>>

GetAuthTokenByTrappAndId(c, trapp_id, id, fault) ==
    /\ c \in Available
    /\ last' = [op |-> "get_auth_token_by_trapp_and_id", trapp_id |-> trapp_id, id |-> id,
                fault |-> fault, pre |-> AtCall,
                ret |-> get_auth_token_by_trapp_and_id(db, conns[c].opts, trapp_id, id, fault)]
    /\ UNCHANGED <<db, conns, issued, boot, calls, web>>

GetAuthTokensByTrapp(c, trapp_id, fault) ==
    /\ c \in Available
    /\ last' = [op |-> "get_auth_tokens_by_trapp", trapp_id |-> trapp_id, fault |-> fault,
                pre |-> AtCall,
                ret |-> get_auth_tokens_by_trapp(db, conns[c].opts, trapp_id, fault)]
    /\ UNCHANGED <<db, conns, issued, boot, calls, web>>

StockedNext ==
    \/ \E c \in Conns, fault \in BOOLEAN : GetTrapps(c, fault)
    \/ \E c \in Conns, id \in TrappIdInputs, fault \in BOOLEAN : GetTrappById(c, id, fault)
    \/ \E c \in Conns, id \in TrappIdInputs, fault \in BOOLEAN : DeleteTrappById(c, id, fault)
    \/ \E c \in Conns, id \in StockedIdInputs, fault \in BOOLEAN : GetAuthTokenById(c, id, fault)
    \/ \E c \in Conns, t \in TrappIdInputs, id \in StockedIdInputs, fault \in BOOLEAN :
          GetAuthTokenByTrappAndId(c, t, id, fault)
    \/ \E c \in Conns, t \in TrappIdInputs, fault \in BOOLEAN : GetAuthTokensByTrapp(c, t, fault)
    \/ \E c \in Conns, id \in StockedIdInputs, fault \in BOOLEAN : DeleteAuthTokenById(c, id, fault)
    \/ \E c \in Conns, t \in TrappIdInputs, id \in StockedIdInputs, fault \in BOOLEAN :
          DeleteAuthTokenByTrappAndId(c, t, id, fault)

StockedSpec == StockedInit /\ [][StockedNext]_vars

(***************************************************************************)
(* Concurrent create_auth_token calls, each on its own pooled connection.  *)
(* A call draws its id and then executes the INSERT; SQLite lets one       *)
(* connection write at a time, and a connection that finds the database    *)
(* locked waits for its busy timeout before it gives up with an error.     *)
(* The pool is configured with two connections, for two callers, and the   *)
(* store has the trapps that earlier create_trapp calls left.              *)
(***************************************************************************)
Pair == {1, 2}

ConcInit ==
    /\ \E n \in 0..MaxTrappId :
          db = [trapps |-> TrappsCreated(n), auth_tokens |-> {}, rules |-> <<>>,
                rules_filter_trapp |-> {}, rules_filter_field |-> {}]
    /\ conns = build_sized(Cardinality(Pair))
    /\ issued = {}
    /\ last = NoCall
    /\ boot = Serving
    /\ calls = [p \in Callers |-> Idle]
    /\ config = Config_default
    /\ HMAC_SECRET = None
    /\ app_data = [w \in Workers |-> None]
    /\ cookie = None
    /\ jar = {}

\* the callers whose INSERT holds the write lock of the database
Writers == {p \in Pair : calls[p].pc = "writing"}

\* the calls of create_auth_token that have begun and not returned
Running == {p \in Pair : calls[p].pc \in {"drawn", "writing"}}

\* the call is made with a connection of the pool:
\* `let id = crypto::random_token(32);`
CallDraw(p, c, trapp_id, name, seed) ==
    /\ calls[p] = Idle
    /\ c \in Available
    /\ seed \in FreshDraws
    /\ conns' = [conns EXCEPT ![c].held = TRUE]
    /\ calls' = [calls EXCEPT ![p] = [pc |-> "drawn", conn |-> c,
                                      trapp_id |-> trapp_id, name |-> name, seed |-> seed,
                                      during |-> Running]]
    /\ issued' = issued \cup {Token[seed]}
    /\ UNCHANGED <<db, last, boot, web>>

\* `.execute(conn)`: the statement takes the write lock, or finds it taken:
\* with a busy timeout it waits for the writer, without one it fails
CallLock(p) ==
    /\ calls[p].pc = "drawn"
    /\ IF Writers = {}
       THEN calls' = [calls EXCEPT ![p].pc = "writing"]
       ELSE /\ conns[calls[p].conn].opts.busy_timeout = 0
            /\ calls' = [calls EXCEPT ![p] = [pc |-> "done", trapp_id |-> calls[p].trapp_id,
                                              name |-> calls[p].name, fault |-> FALSE,
                                              during |-> calls[p].during,
                                              ret |-> SqlxError]]
    /\ conns' = IF Writers = {} THEN conns ELSE [conns EXCEPT ![calls[p].conn].held = FALSE]
    /\ UNCHANGED <<db, issued, last, boot, web>>

\* the INSERT runs and commits, `.await?` and `Ok(id)`; the caller drops
\* the connection
CallInsert(p, fault) ==
    /\ calls[p].pc = "writing"
    /\ LET c == calls[p]
           r == create_auth_token(db, conns[c.conn].opts, c.trapp_id, c.name, c.seed, fault)
       IN /\ db' = r.db
          /\ calls' = [calls EXCEPT ![p] = [pc |-> "done", trapp_id |-> c.trapp_id,
                                            name |-> c.name, fault |-> fault,
                                            during |-> c.during,
                                            ret |-> r.ret]]
          /\ conns' = [conns EXCEPT ![c.conn].held = FALSE]
    /\ UNCHANGED <<issued, last, boot, web>>

ConcNext ==
    \/ \E p \in Pair, c \in ConnSlots, trapp_id \in TrappIdInputs, name \in Names, seed \in Seeds :
          CallDraw(p, c, trapp_id, name, seed)
    \/ \E p \in Pair : CallLock(p)
    \/ \E p \in Pair, fault \in BOOLEAN : CallInsert(p, fault)

ConcSpec == ConcInit /\ [][ConcNext]_vars

(***************************************************************************)
(* create_auth_token on one connection while delete_trapp_by_id runs on    *)
(* another: the DELETE is one statement, which waits for the write lock    *)
(* like the INSERT and carries out the cascade before it commits.          *)
(***************************************************************************)
\* delete_trapp_by_id is called with a connection of the pool
CallDelete(p, c, id) ==
    /\ calls[p] = Idle
    /\ c \in Available
    /\ conns' = [conns EXCEPT ![c].held = TRUE]
    /\ calls' = [calls EXCEPT ![p] = [pc |-> "deleting", conn |-> c, trapp_id |-> id,
                                      during |-> Running]]
    /\ UNCHANGED <<db, issued, last, boot, web>>

\* the DELETE takes the write lock, waiting for a writer as long as the
\* busy timeout allows, runs and commits, `rows_affected()` and `Ok(n > 0)`;
\* the caller drops the connection
CallDeleteRuns(p, fault) ==
    /\ calls[p].pc = "deleting"
    /\ Writers # {} => conns[calls[p].conn].opts.busy_timeout = 0
    /\ LET c == calls[p]
           r == IF Writers = {}
                THEN delete_trapp_by_id(db, conns[c.conn].opts, c.trapp_id, fault)
                ELSE [db |-> db, ret |-> SqlxError]
       IN /\ db' = r.db
          /\ calls' = [calls EXCEPT ![p] = [pc |-> "deleted", trapp_id |-> c.trapp_id,
                                            fault |-> fault, during |-> c.during,
                                            found |-> c.trapp_id \in TrappIds(db),
                                            ret |-> r.ret]]
          /\ conns' = [conns EXCEPT ![c.conn].held = FALSE]
    /\ UNCHANGED <<issued, last, boot, web>>

RaceNext ==
    \/ \E p \in Pair, c \in ConnSlots, trapp_id \in TrappIdInputs, name \in Names, seed \in Seeds :
          CallDraw(p, c, trapp_id, name, seed)
    \/ \E p \in Pair : CallLock(p)
    \/ \E p \in Pair, fault \in BOOLEAN : CallInsert(p, fault)
    \/ \E p \in Pair, c \in ConnSlots, id \in TrappIdInputs : CallDelete(p, c, id)
    \/ \E p \in Pair, fault \in BOOLEAN : CallDeleteRuns(p, fault)

RaceSpec == ConcInit /\ [][RaceNext]_vars

(***************************************************************************)
(* The admin pages of a configured process in normal mode: clients log in, *)
(* make up cookies, and request the pages on any worker.                   *)
(***************************************************************************)
AdminInit ==
    /\ db = [trapps |-> {}, auth_tokens |-> {}, rules |-> <<>>,
             rules_filter_trapp |-> {}, rules_filter_field |-> {}]
    /\ conns = build
    /\ issued = {Token[1]}
    /\ last = NoCall
    /\ boot = Serving
    /\ calls = [p \in Callers |-> Idle]
    /\ config = Config_default
    /\ HMAC_SECRET = random_hmac(Config_default, None, 1).HMAC_SECRET
    /\ app_data = [w \in Workers |-> Some(random_hmac(Config_default, Some(Token[1]), 1).ret)]
    /\ cookie = None
    /\ jar = {}

\* what the request found
AdminAtCall == [db |-> db, cookie |-> cookie]

\* the extractors of the request to worker w have run: `last` holds what
\* the Session extractor returned, and the handler is next
Extracted(w) == Called("from_request") /\ last.worker = w

\* the request has been answered: the tables are as the handler left them
Answered(op, w, r) ==
    /\ db' = r.db
    /\ last' = [op |-> op, worker |-> w, pre |-> AdminAtCall, ret |-> r]

GetOverview(w) ==
    /\ Extracted(w)
    /\ Answered("get_overview", w, admin_get_overview(last.ret, db))
    /\ UNCHANGED <<conns, issued, boot, calls, web>>

AdminGetTrapps(w, c, fault) ==
    /\ Extracted(w)
    /\ c \in Available
    /\ Answered("get_trapps", w, admin_get_trapps(last.ret, db, conns[c].opts, fault))
    /\ UNCHANGED <<conns, issued, boot, calls, web>>

GetTrappCreate(w) ==
    /\ Extracted(w)
    /\ Answered("get_trapp_create", w, admin_get_trapp_create(last.ret, db))
    /\ UNCHANGED <<conns, issued, boot, calls, web>>

PostTrappCreate(w, c, name, seed, fault_trapp, fault_token) ==
    /\ Extracted(w)
    /\ c \in Available
    /\ seed \in FreshDraws
    /\ next_rowid(TrappIds(db)) <= MaxTrappId
    /\ Answered("post_trapp_create", w,
                admin_post_trapp_create(last.ret, db, conns[c].opts, [name |-> name],
                                        seed, fault_trapp, fault_token))
    /\ issued' = IF last.ret.ok /\ ~fault_trapp THEN issued \cup {Token[seed]} ELSE issued
    /\ UNCHANGED <<conns, boot, calls, web>>

GetTrappOverview(w, c, trapp_id, fault_trapp, fault_tokens) ==
    /\ Extracted(w)
    /\ c \in Available
    /\ Answered("get_trapp_overview", w,
                admin_get_trapp_overview(last.ret, db, conns[c].opts, trapp_id,
                                         fault_trapp, fault_tokens))
    /\ UNCHANGED <<conns, issued, boot, calls, web>>

PostTrappAuthToken(w, c, trapp_id, name, seed, fault) ==
    /\ Extracted(w)
    /\ c \in Available
    /\ seed \in FreshDraws
    /\ Answered("post_trapp_auth_token", w,
                admin_post_trapp_auth_token(last.ret, db, conns[c].opts, trapp_id,
                                            [name |-> name], seed, fault))
    /\ issued' = IF last.ret.ok THEN issued \cup {Token[seed]} ELSE issued
    /\ UNCHANGED <<conns, boot, calls, web>>

\* the name typed into the forms of the admin pages
FormNames == {"foo"}

\* a browser stores the session cookie the login just sent
ClientKeeps ==
    /\ Called("post_login")
    /\ last.ret.headers.Set_Cookie # None
    /\ jar' = jar \cup {last.ret.headers.Set_Cookie[1].value}
    /\ UNCHANGED <<db, conns, issued, last, boot, calls, config, HMAC_SECRET, app_data, cookie>>

\* a browser comes back with a session cookie it stored
ClientReturns(token_str) ==
    /\ token_str \in jar
    /\ cookie # Some(token_str)
    /\ cookie' = Some(token_str)
    /\ last' = [op |-> "return", pre |-> WebAtCall]
    /\ UNCHANGED <<db, conns, issued, boot, calls, config, HMAC_SECRET, app_data, jar>>

AdminNext ==
    \/ \E w \in Workers, login \in Logins, seed \in 1..MaxDraws : PostLogin(w, login, seed)
    \/ \E token_str \in Forgeries(cookie) : ClientForges(token_str)
    \/ ClientKeeps
    \/ \E token_str \in jar : ClientReturns(token_str)
    \/ \E w \in Workers : FromRequest(w)
    \/ \E w \in Workers : GetOverview(w)
    \/ \E w \in Workers, c \in Conns, fault \in BOOLEAN : AdminGetTrapps(w, c, fault)
    \/ \E w \in Workers : GetTrappCreate(w)
    \/ \E w \in Workers, c \in Conns, name \in FormNames, seed \in 1..MaxDraws,
          fault_trapp \in BOOLEAN, fault_token \in BOOLEAN :
          PostTrappCreate(w, c, name, seed, fault_trapp, fault_token)
    \/ \E w \in Workers, c \in Conns, trapp_id \in TrappIdInputs,
          fault_trapp \in BOOLEAN, fault_tokens \in BOOLEAN :
          GetTrappOverview(w, c, trapp_id, fault_trapp, fault_tokens)
    \/ \E w \in Workers, c \in Conns, trapp_id \in TrappIdInputs, name \in FormNames,
          seed \in 1..MaxDraws, fault \in BOOLEAN :
          PostTrappAuthToken(w, c, trapp_id, name, seed, fault)

AdminSpec == AdminInit /\ [][AdminNext]_vars

(***************************************************************************)
(* The rule store opened on a database file that already has rows.  The    *)
(* type_ column is a plain integer: a row written by another version of    *)
(* the program, or by hand, can hold a value RuleType does not know.       *)
(***************************************************************************)
\* the values of rules.type_: the two discriminators and one that is neither
TypeValues == {RuleType_FilterTrapp, RuleType_FilterField,
               RuleType_FilterTrapp + RuleType_FilterField}

\* the tables holding rows 1..n with the names and types `f` gives them,
\* each row of a known type with its child row
StoredRules(n, f) ==
    [trapps |-> {}, auth_tokens |-> {},
     rules |-> [i \in 1..n |-> [id |-> i, name |-> f[i][1], type_ |-> f[i][2]]],
     rules_filter_trapp |-> {[rule_id |-> i, trapp_id |-> 1234] :
                                i \in {j \in 1..n : f[j][2] = RuleType_FilterTrapp}},
     rules_filter_field |-> {[rule_id |-> i, field_key |-> "key", field_value |-> "value"] :
                                i \in {j \in 1..n : f[j][2] = RuleType_FilterField}}]

StoredRulesInit ==
    /\ \E n \in 0..MaxRules : \E f \in [1..n -> Names \X TypeValues] : db = StoredRules(n, f)
    /\ Started

StoredRulesSpec == StoredRulesInit /\ [][RuleNext]_vars


(***************************************************************************)
(* Properties of the entity store.  `last` is the call that led to the     *)
(* state: its arguments, what it found (last.pre) and what it returned;    *)
(* db is what it left.                                                     *)
(***************************************************************************)
\* the call ran on a connection of the pool; all carry the same settings
ConnOf(c) == conns[c].opts

\* C1: every auth_tokens row has a trapp_id that is the id of a trapps row,
\* whatever calls were made on the pooled connections and however they ended.
C1_NoOrphanAuthToken ==
    \A a \in db.auth_tokens : a.trapp_id \in TrappIds(db)

\* a trapp was deleted while the token of another trapp stays in the store
C1_Witness ==
    /\ Called("delete_trapp_by_id")
    /\ last.ret.ok /\ last.ret.val
    /\ db.auth_tokens # {}

\* C2: when delete_trapp_by_id(x) returns true, every auth token that was
\* stored under trapp x is gone after the same step: get_auth_token_by_id
\* of its id returns Ok(None).
C2_DeleteTrappCascades ==
    (Called("delete_trapp_by_id") /\ last.ret.ok /\ last.ret.val)
    => \A a \in last.pre.db.auth_tokens :
          a.trapp_id = last.trapp_id =>
             \A c \in Conns :
                LET got == get_auth_token_by_id(db, ConnOf(c), a.id, FALSE)
                IN got.ok /\ got.val = None

\* delete_trapp_by_id returned true for a trapp that had an auth token
C2_Witness ==
    /\ Called("delete_trapp_by_id")
    /\ last.ret.ok /\ last.ret.val
    /\ \E a \in last.pre.db.auth_tokens : a.trapp_id = last.trapp_id

\* C3: create_auth_token with a trapp_id that no trapps row has returns an
\* error, never Ok, and leaves the auth_tokens rows as they were.
C3_UnknownTrappRejected ==
    (Called("create_auth_token") /\ last.trapp_id \notin TrappIds(last.pre.db))
    => (~last.ret.ok /\ db.auth_tokens = last.pre.db.auth_tokens)

\* the store, not a driver fault, refused a token for a trapp id while
\* another trapp exists
C3_Witness ==
    /\ Called("create_auth_token")
    /\ ~last.fault /\ ~last.ret.ok
    /\ last.trapp_id \notin TrappIds(last.pre.db)
    /\ last.pre.db.trapps # {}

\* C4: for an existing trapp x and any name, create_auth_token(x, name)
\* (the driver not failing) returns Ok with a 32-character id, and
\* get_auth_token_by_id of that id right afterwards returns the token
\* {id, trapp_id: x, name}.
C4_CreatedTokenRetrievable ==
    (Called("create_auth_token") /\ ~last.fault /\ last.trapp_id \in TrappIds(last.pre.db))
    => /\ last.ret.ok
       /\ Len(last.ret.val) = 32
       /\ \A c \in Conns :
             LET got == get_auth_token_by_id(db, ConnOf(c), last.ret.val, FALSE)
             IN /\ got.ok
                /\ got.val = Some([id |-> last.ret.val, trapp_id |-> last.trapp_id,
                                   name |-> last.name])

\* a token was created under the second of two trapps
C4_Witness ==
    /\ Called("create_auth_token")
    /\ last.ret.ok
    /\ last.trapp_id > 1
    /\ Cardinality(db.trapps) > 1
    /\ last.ret.val \in AuthTokenIds(db)

\* C5: delete_trapp_by_id(id) (the driver not failing) returns Ok(true)
\* exactly when a trapp with that id existed at the call; for an absent id
\* it returns Ok(false) and leaves the store unchanged; afterwards the id is
\* absent, so that repeating the call returns Ok(false) and changes nothing.
C5_DeleteTrappIdempotent ==
    (Called("delete_trapp_by_id") /\ ~last.fault)
    => /\ last.ret.ok
       /\ last.ret.val = (last.trapp_id \in TrappIds(last.pre.db))
       /\ (last.trapp_id \notin TrappIds(last.pre.db) => db = last.pre.db)
       /\ \A c \in Conns :
             LET again == delete_trapp_by_id(db, ConnOf(c), last.trapp_id, FALSE)
             IN again.ret.ok /\ ~again.ret.val /\ again.db = db

\* delete_trapp_by_id returned false for an id that had been deleted before
C5_Witness ==
    /\ Called("delete_trapp_by_id")
    /\ ~last.fault /\ last.ret.ok /\ ~last.ret.val
    /\ \E t \in db.trapps : t.id > last.trapp_id /\ last.trapp_id >= 1

\* C6: create_trapp(name) (the driver not failing) succeeds for every name,
\* also one another trapp has; the id it returns is greater than 0 and is
\* the id of no trapp that was in the store; get_trapp_by_id of it then
\* returns Trapp{id, name}.
C6_CreateTrappFreshId ==
    (Called("create_trapp") /\ ~last.fault)
    => /\ last.ret.ok
       /\ last.ret.val > 0
       /\ last.ret.val \notin TrappIds(last.pre.db)
       /\ \A c \in Conns :
             LET got == get_trapp_by_id(db, ConnOf(c), last.ret.val, FALSE)
             IN /\ got.ok
                /\ got.val = Some([id |-> last.ret.val, name |-> last.name])

\* a trapp was created with the name another trapp in the store has
C6_Witness ==
    /\ Called("create_trapp")
    /\ last.ret.ok
    /\ \E t \in last.pre.db.trapps : t.name = last.name

\* C7: get_trapp_by_id and get_auth_token_by_id of an id that is not in the
\* store (never created, or deleted) return Ok(None); the only error either
\* returns is the driver's.
C7_AbsentIsNone ==
    /\ (Called("get_trapp_by_id") /\ last.trapp_id \notin TrappIds(last.pre.db))
       => /\ last.ret.ok = ~last.fault
          /\ last.ret.ok => last.ret.val = None
    /\ (Called("get_auth_token_by_id") /\ last.id \notin AuthTokenIds(last.pre.db))
       => /\ last.ret.ok = ~last.fault
          /\ last.ret.ok => last.ret.val = None

\* get_trapp_by_id returned Ok(None) for an id that had been deleted
C7_Witness ==
    /\ Called("get_trapp_by_id")
    /\ last.ret.ok /\ last.ret.val = None
    /\ \E t \in db.trapps : t.id > last.trapp_id /\ last.trapp_id >= 1

\* C8: for an auth token T in the store, delete_auth_token_by_id(T) (the
\* driver not failing) returns Ok(true) and removes it, so that
\* get_auth_token_by_id(T) returns Ok(None); for a token not in the store
\* it returns Ok(false); and no call brings back a token that was drawn
\* earlier and is not in the store, so every later delete returns Ok(false).
C8_DeleteAuthTokenOnce ==
    /\ (Called("delete_auth_token_by_id") /\ ~last.fault)
       => /\ last.ret.ok
          /\ last.ret.val = (last.id \in AuthTokenIds(last.pre.db))
          /\ \A c \in Conns :
                LET got == get_auth_token_by_id(db, ConnOf(c), last.id, FALSE)
                IN got.ok /\ got.val = None
    /\ ~Called("none")
       => \A id \in last.pre.issued :
             id \notin AuthTokenIds(last.pre.db) => id \notin AuthTokenIds(db)

\* delete_auth_token_by_id returned false for a token it had removed before
C8_Witness ==
    /\ Called("delete_auth_token_by_id")
    /\ ~last.fault /\ last.ret.ok /\ ~last.ret.val
    /\ last.id \in last.pre.issued
    /\ last.pre.db.trapps # {}

(***************************************************************************)
(* Properties of the rule store.                                           *)
(***************************************************************************)

\* the element get_rules returns for rule `id`, as a set (empty: none)
RulesListed(d, conn, id) ==
    LET rs == get_rules(d, conn, FALSE)
    IN IF ~rs.ok THEN {} ELSE {rs.val[i] : i \in {j \in 1..Len(rs.val) : rs.val[j].id = id}}

\* C9: after create_rule succeeded, get_rules yields an element for the
\* created rule with the name, the discriminator and the payload fields
\* (trapp_id; field_key and field_value) that were supplied.
C9_RuleRoundTrip ==
    (last.op = "create_rule" /\ last.ret.ok)
    => \A c \in Conns :
          \E e \in RulesListed(db, conns[c].opts, last.ret.val) :
             /\ e.name = last.rule.name
             /\ e.type_ = last.rule.type_
             /\ e.type_ = "FilterTrapp" => e.trapp_id = last.rule.trapp_id
             /\ e.type_ = "FilterField" =>
                   /\ e.field_key = last.rule.field_key
                   /\ e.field_value = last.rule.field_value

\* the child rows of rule `r`, per table
ChildrenTrapp(d, r) == {x \in d.rules_filter_trapp : x.rule_id = r.id}

ChildrenField(d, r) == {x \in d.rules_filter_field : x.rule_id = r.id}

\* C10: every rules row has exactly one child row, in the table of its
\* type, also after a create_rule whose child insert failed.
C10_ParentHasOneChild ==
    \A i \in 1..Len(db.rules) :
        LET r == db.rules[i]
        IN /\ r.type_ = RuleType_FilterTrapp =>
                 Cardinality(ChildrenTrapp(db, r)) = 1 /\ ChildrenField(db, r) = {}
           /\ r.type_ = RuleType_FilterField =>
                 Cardinality(ChildrenField(db, r)) = 1 /\ ChildrenTrapp(db, r) = {}

\* the rows of rules hold a type RuleType does not know
UnknownTypes(d) == {i \in 1..Len(d.rules) : ~RuleType_try_from(d.rules[i].type_).ok}

\* C11: get_rules (the driver not failing) either returns one element per
\* row of rules, in the rows' order, with the row's id and name and the
\* variant of the row's discriminator (1: FilterTrapp, 2: FilterField), or
\* returns no list; with a row of another discriminator it returns no list.
C11_RulesResolvedOrNoList ==
    (Called("get_rules") /\ ~last.fault)
    => /\ last.ret.ok =>
             /\ Len(last.ret.val) = Len(db.rules)
             /\ \A i \in 1..Len(db.rules) :
                   LET r == db.rules[i]
                       e == last.ret.val[i]
                   IN /\ e.id = r.id
                      /\ e.name = r.name
                      /\ \/ r.type_ = 1 /\ e.type_ = "FilterTrapp"
                         \/ r.type_ = 2 /\ e.type_ = "FilterField"
       /\ UnknownTypes(db) # {} => ~last.ret.ok

\* get_rules met a row of an unknown type after a row of a known one
C11_Witness ==
    /\ Called("get_rules")
    /\ ~last.fault
    /\ UnknownTypes(db) # {}
    /\ 1 \notin UnknownTypes(db)

\* C12: every call of the store ends in a typed outcome, Ok or Err, for
\* any contents of the tables: none unwinds.
C12_TypedOutcome ==
    ~Called("none") => (last.ret.ok \/ "err" \in DOMAIN last.ret)

\* C13: for every claim c and key k, jwt_decode(jwt_encode(c, k), k) is
\* Ok(c): the same id and the same username.
C13_JwtRoundTrip ==
    Called("jwt_encode") => jwt_decode(last.ret, last.key) = Ok(last.claim)

\* a claim for admin was signed with a generated secret
C13_Witness ==
    /\ Called("jwt_encode")
    /\ last.key.secret # DebugSecret
    /\ last.claim.username = <<"a", "d", "m", "i", "n">>

\* C14: jwt_decode returns a claim only for a string that is exactly what
\* jwt_encode makes of that claim under the same key; a token with a
\* character changed, appended or cut off, and a token signed under another
\* key, get the verification error.
C14_TamperedRejected ==
    Called("jwt_decode")
    => /\ last.ret.ok => last.token = jwt_encode(last.ret.val, last.key)
       /\ ~last.ret.ok => last.ret = JwtVerificationFailed

\* a token with "x" appended was rejected under the key that signed it
C14_Witness ==
    /\ Called("jwt_decode")
    /\ ~last.ret.ok
    /\ \E c \in Claims : last.token = Append(jwt_encode(c, last.key), "x")

\* the keys the workers of the running process hold
KeysInUse == {app_data[w][1] : w \in {v \in Workers : app_data[v] # None}}

\* C15: the keys random_hmac returns within one process are all built from
\* one secret, "trapperkeeper" in debug mode and otherwise the 32-character
\* token generated at first use, so that a token signed with the key of one
\* call verifies with the key of another; the first key of a restarted
\* process in normal mode comes from a secret not used before, and neither
\* the token the client holds nor any token signed under an earlier secret
\* verifies with it.
C15_OneSecretPerProcess ==
    /\ \A k \in KeysInUse :
          /\ config.debug => k.secret = DebugSecret
          /\ ~config.debug =>
                HMAC_SECRET # None /\ k.secret = HMAC_SECRET[1] /\ Len(k.secret) = 32
    /\ \A k1 \in KeysInUse, k2 \in KeysInUse, c \in Claims :
          jwt_decode(jwt_encode(c, k1), k2) = Ok(c)
    /\ (Called("configure") /\ last.pre.HMAC_SECRET # None)
       => HMAC_SECRET = last.pre.HMAC_SECRET
    /\ (Called("configure") /\ ~config.debug /\ last.pre.HMAC_SECRET = None)
       => /\ last.ret.secret \notin last.pre.issued
          /\ cookie # None => ~jwt_decode(cookie[1], last.ret).ok
          /\ \A tok \in last.pre.issued, c \in Claims :
                ~jwt_decode(jwt_encode(c, new_from_slice(tok)), last.ret).ok

\* after a restart in normal mode, with the client holding a token of the
\* earlier process, the second worker was configured
C15_Witness ==
    /\ Called("configure")
    /\ ~config.debug
    /\ Cardinality(KeysInUse) = 1
    /\ \A w \in Workers : app_data[w] # None
    /\ cookie # None
    /\ Cardinality(issued) = MaxDraws

\* C20: the response of post_login carries a Set-Cookie header exactly when
\* the submitted username and password both equal the configured
\* administrator's; a wrong username or a wrong password never gets one.
C20_CookieOnlyForAdmin ==
    Called("post_login")
    => (last.ret.headers.Set_Cookie # None
        <=> (/\ last.login.username = config.admin.username
             /\ last.login.password = config.admin.password))

\* a login with the administrator's name and a wrong password got no
\* cookie, and the client keeps none
C20_Witness ==
    /\ Called("post_login")
    /\ last.login.username = config.admin.username
    /\ last.login.password # config.admin.password
    /\ last.ret.headers.Set_Cookie = None
    /\ cookie = None
    /\ jar = {}

\* the connections callers hold
Held == {c \in ConnSlots : conns[c].held}

\* C17: every connection Pool::get has handed to a caller, and every
\* connection in the pool, has foreign keys switched on, also one the pool
\* established later in place of a closed one; a connection whose PRAGMA
\* failed is not in the pool.
C17_HandedOutHasForeignKeys ==
    /\ \A c \in ConnSlots : conns[c].open => conns[c].opts.fkey
    /\ \A p \in Callers :
          calls[p].pc = "holding" => conns[calls[p].conn].open /\ conns[calls[p].conn].opts.fkey
    /\ (Called("establish") /\ last.fault # 0) => ~conns[last.conn].open

\* a caller holds a connection the pool established later, in a place
\* whose earlier connection was closed or had failed to be set up
C17_Witness ==
    /\ Called("get")
    /\ last.ret.ok
    /\ conns[last.ret.val].serial = 2
    /\ conns[last.ret.val].held

\* C18: never more than pool_size connections are open or checked out; a
\* caller starts to wait only when no connection is idle, so that a
\* Pool::get made with a connection released obtains one; a wait never
\* lasts longer than the connection timeout, Pool::get returns the pool's
\* error only at that deadline, and every wait ends: with a connection or
\* with the error.
C18_BoundedPoolBoundedWait ==
    /\ [](/\ Cardinality(Held) <= PoolSize
          /\ Cardinality({c \in ConnSlots : conns[c].open}) <= PoolSize
          /\ Called("wait") => Available = {}
          /\ \A p \in Callers : calls[p].pc = "waiting" => calls[p].waited <= WaitTicks
          /\ (Called("get") /\ ~last.ret.ok) => last.waited = WaitTicks)
    /\ \A p \in Callers : (calls[p].pc = "waiting") ~> (calls[p].pc # "waiting")

\* Pool::get returned the error to a caller while all pool_size connections
\* were checked out
C18_Witness ==
    /\ Called("get")
    /\ ~last.ret.ok
    /\ Cardinality(Held) = PoolSize
    /\ \A c \in Held : conns[c].open

\* C16: the pool is returned by build, and requests are served, only with
\* no migration pending; a call of the store has been made only in a
\* serving process; and a process whose pool, migration connection or
\* migration failed has aborted without serving any request.
C16_MigratedBeforeServing ==
    /\ boot.pc \in {"handed", "serving"} => boot.pending = 0
    /\ ~Called("none") => boot.pc = "serving" /\ boot.pending = 0
    /\ boot.pc = "aborted" => Called("none") /\ db.trapps = {}

\* startup aborted at a migration after an earlier one had been applied
C16_Witness ==
    /\ boot.pc = "aborted"
    /\ boot.applied > 0
    /\ boot.pending > 0

\* C19: two create_auth_token calls for the same trapp of the store, made
\* on two connections and not failed by the driver,
\* both return Ok, with two different ids, and the table holds a row for
\* each, with that id, that trapp and the name given; whatever the order
\* of their steps.
C19_ConcurrentCreatesSucceed ==
    \A p, q \in Pair :
        (/\ p # q
         /\ calls[p].pc = "done" /\ calls[q].pc = "done"
         /\ ~calls[p].fault /\ ~calls[q].fault
         /\ calls[p].trapp_id = calls[q].trapp_id
         /\ calls[p].trapp_id \in TrappIds(db))
        => /\ calls[p].ret.ok /\ calls[q].ret.ok
           /\ calls[p].ret.val # calls[q].ret.val
           /\ \A x \in {p, q} :
                 [id |-> calls[x].ret.val, trapp_id |-> calls[x].trapp_id,
                  name |-> calls[x].name] \in db.auth_tokens

\* two calls for one trapp have returned Ok, the second issued while the
\* first had drawn its id and not yet returned
C19_Witness ==
    \E p, q \in Pair :
        /\ p # q
        /\ calls[p].pc = "done" /\ calls[q].pc = "done"
        /\ calls[p].ret.ok /\ calls[q].ret.ok
        /\ calls[p].trapp_id = calls[q].trapp_id
        /\ calls[p].name = calls[q].name
        /\ q \in calls[p].during

\* C21: the cookie in the response to a login with the administrator's
\* credentials is named authorization, has path /, is HttpOnly, has max-age
\* 86400, and its value decodes, under the key of every worker of the
\* process, to a Session with the username that was submitted.
C21_LoginCookie ==
    (Called("post_login") /\ last.login = config.admin)
    => /\ last.ret.headers.Set_Cookie # None
       /\ LET c == last.ret.headers.Set_Cookie[1]
          IN /\ c.name = "authorization"
             /\ c.path = "/"
             /\ c.http_only
             /\ c.max_age = 86400
             /\ \A k \in KeysInUse :
                   /\ jwt_decode(c.value, k).ok
                   /\ jwt_decode(c.value, k).val.username = last.login.username

\* the administrator logged in on a process in normal mode with both
\* workers configured, and the client holds the cookie
C21_Witness ==
    /\ Called("post_login")
    /\ last.login = config.admin
    /\ ~config.debug
    /\ \A w \in Workers : app_data[w] # None
    /\ cookie = Some(last.ret.headers.Set_Cookie[1].value)

\* C22: a login with the configured administrator credentials is answered
\* with 302 Found and the Location "/admin/index".
C22_LoginRedirectsToIndex ==
    (Called("post_login") /\ last.login = config.admin)
    => /\ last.ret.status = "302 Found"
       /\ last.ret.headers.Location = Some("/admin/index")

\* C23: a login with credentials other than the administrator's is
\* answered with 403 Forbidden and has no Location header.
C23_BadLoginForbidden ==
    (Called("post_login") /\ last.login # config.admin)
    => /\ last.ret.status = "403 Forbidden"
       /\ last.ret.headers.Location = None

\* C24: a request without an authorization cookie, and a request whose
\* cookie does not verify under the worker's key, get the same answer from
\* session recovery: no Session, and the 302 redirect to /admin/login,
\* never a 500.
C24_NoSessionRedirects ==
    (/\ Called("from_request")
     /\ \/ last.pre.cookie = None
        \/ ~jwt_decode(last.pre.cookie[1], app_data[last.worker][1]).ok)
    => /\ ~last.ret.ok
       /\ last.ret.err \in {"NoCookie", "VerificationFailed"}
       /\ last.resp = HttpResponse_Found("/admin/login")
       /\ last.resp.status # "500 Internal Server Error"

\* a request came with a cookie signed under an earlier secret of the
\* program, which the key of the restarted process does not verify
C24_Witness ==
    /\ Called("from_request")
    /\ last.pre.cookie # None
    /\ \E tok \in issued : jwt_decode(last.pre.cookie[1], new_from_slice(tok)).ok
    /\ last.ret = Err("VerificationFailed")
    /\ last.resp.headers.Location = Some("/admin/login")

\* the rows of token `id` under trapp `trapp_id` in tables d
Owned(d, trapp_id, id) == {a \in d.auth_tokens : a.id = id /\ a.trapp_id = trapp_id}

\* C25: get_auth_token_by_trapp_and_id(X, T) returns the token when T
\* exists with trapp_id X, the same token get_auth_token_by_id(T) returns,
\* and None otherwise; delete_auth_token_by_trapp_and_id(X, T) returns true
\* and removes T in that case, and otherwise returns false and leaves the
\* tables, a T of another trapp included, as they were.
C25_TrappScopedToken ==
    /\ (Called("get_auth_token_by_trapp_and_id") /\ ~last.fault)
       => LET owned == Owned(last.pre.db, last.trapp_id, last.id)
          IN /\ owned # {} =>
                   /\ last.ret.ok /\ last.ret.val # None
                   /\ last.ret.val[1] \in owned
                   /\ last.ret = get_auth_token_by_id(last.pre.db, ConnOf(1), last.id, FALSE)
             /\ owned = {} => last.ret = Ok(None)
    /\ (Called("delete_auth_token_by_trapp_and_id") /\ ~last.fault)
       => LET owned == Owned(last.pre.db, last.trapp_id, last.id)
          IN /\ last.ret = Ok(owned # {})
             /\ owned # {} => /\ last.id \notin AuthTokenIds(db)
                              /\ db.auth_tokens = last.pre.db.auth_tokens \ owned
             /\ owned = {} => db = last.pre.db

\* the delete was called with a trapp that exists and a token of another
\* trapp: false, and the token is still there
C25_Witness ==
    /\ Called("delete_auth_token_by_trapp_and_id")
    /\ ~last.fault
    /\ last.trapp_id \in TrappIds(db)
    /\ \E a \in db.auth_tokens : a.id = last.id /\ a.trapp_id # last.trapp_id
    /\ last.ret = Ok(FALSE)

\* C26: get_trapps returns every trapp in the store once and nothing else;
\* get_auth_tokens_by_trapp(X) returns every token whose trapp_id is X once
\* and no token of another trapp, each reported with trapp_id X.
C26_ListsAreTheRows ==
    /\ (Called("get_trapps") /\ ~last.fault)
       => /\ last.ret.ok
          /\ Range(last.ret.val) = last.pre.db.trapps
          /\ Len(last.ret.val) = Cardinality(last.pre.db.trapps)
    /\ (Called("get_auth_tokens_by_trapp") /\ ~last.fault)
       => /\ last.ret.ok
          /\ Range(last.ret.val) = {a \in last.pre.db.auth_tokens : a.trapp_id = last.trapp_id}
          /\ Len(last.ret.val) =
                Cardinality({a \in last.pre.db.auth_tokens : a.trapp_id = last.trapp_id})
          /\ \A i \in 1..Len(last.ret.val) : last.ret.val[i].trapp_id = last.trapp_id

\* tokens were listed for a trapp that has one, in a store that also holds
\* a token of another trapp
C26_Witness ==
    /\ Called("get_auth_tokens_by_trapp")
    /\ ~last.fault
    /\ Len(last.ret.val) > 0
    /\ \E a \in db.auth_tokens : a.trapp_id # last.trapp_id

\* C27: once a create_auth_token(X, name) and a delete_trapp_by_id(X) that
\* ran on two connections have both returned, the driver failing neither,
\* trapp X is gone and no token has trapp_id X: the insert failed with the
\* store's error, or it returned an id whose row the cascade has removed,
\* which is the case only if the delete found the trapp; and at no moment
\* does a token refer to a trapp that is not in the store.
C27_CreateAgainstDelete ==
    /\ \A a \in db.auth_tokens : a.trapp_id \in TrappIds(db)
    /\ \A p, q \in Pair :
          (/\ calls[p].pc = "done" /\ calls[q].pc = "deleted"
           /\ calls[p].trapp_id = calls[q].trapp_id
           /\ ~calls[p].fault /\ ~calls[q].fault)
          => /\ calls[q].trapp_id \notin TrappIds(db)
             /\ \A a \in db.auth_tokens : a.trapp_id # calls[q].trapp_id
             /\ \/ calls[p].ret = SqlxError
                \/ /\ calls[p].ret.ok
                   /\ calls[p].ret.val \notin AuthTokenIds(db)
                   /\ calls[q].found /\ calls[q].ret = Ok(TRUE)

\* the delete was called while the create had drawn its id; the insert
\* went first and returned the id, and the delete removed the trapp and
\* the new token with it
C27_Witness ==
    \E p, q \in Pair :
        /\ calls[p].pc = "done" /\ calls[q].pc = "deleted"
        /\ calls[p].trapp_id = calls[q].trapp_id
        /\ p \in calls[q].during
        /\ calls[p].ret.ok
        /\ calls[q].ret = Ok(TRUE)
        /\ db.auth_tokens = {}

\* the requests to the admin routes other than /admin/login
AdminRoutes == {"get_overview", "get_trapps", "get_trapp_create", "post_trapp_create",
                "get_trapp_overview", "post_trapp_auth_token"}

\* C28: on every admin route other than /admin/login the body of the
\* handler is entered only for a request whose authorization cookie
\* verifies under the key of the process; a request with no cookie or with
\* one that does not verify is answered with the redirect to /admin/login,
\* creates no trapp and no token, and is shown no trapp and no token.
C28_AdminNeedsSession ==
    last.op \in AdminRoutes
    => LET valid == /\ last.pre.cookie # None
                    /\ jwt_decode(last.pre.cookie[1], app_data[last.worker][1]).ok
       IN /\ last.ret.ran => valid
          /\ ~valid => /\ db = last.pre.db
                       /\ last.ret.data = None
                       /\ last.ret.resp = HttpResponse_Found("/admin/login")

\* a client that never logged in posted the trapp form with an
\* administrator's session signed with a key of its own: redirected,
\* nothing created
C28_Witness ==
    /\ Called("post_trapp_create")
    /\ last.pre.cookie # None
    /\ last.pre.cookie[1] \in Forgeries(None)
    /\ ~last.ret.ran
    /\ db.trapps = {}

\* C29: a session cookie a successful login of this process sent is
\* accepted by every later request that carries it, on either worker,
\* whatever trapps and tokens were created and whatever logins, failed or
\* successful, happened since: verification looks at the token string and
\* the key only, there is no age and no record of sessions to revoke one.
C29_SessionStaysValid ==
    (Called("from_request") /\ last.pre.cookie # None /\ last.pre.cookie[1] \in jar)
    => /\ last.ret.ok
       /\ last.ret.val.username = Credentials.username
       /\ last.resp = HttpResponse_Ok

\* a kept session is accepted after a trapp with its token was created
C29_Witness ==
    /\ Called("from_request")
    /\ last.pre.cookie # None
    /\ last.pre.cookie[1] \in jar
    /\ db.trapps # {}
    /\ db.auth_tokens # {}
    /\ last.ret.ok

\* the calls that only read
Reads == {"get_trapps", "get_trapp_by_id", "get_auth_token_by_id",
          "get_auth_token_by_trapp_and_id", "get_auth_tokens_by_trapp"}

\* C30: a delete changes only its target.  After delete_trapp_by_id(X)
\* the trapps other than X and the tokens of the trapps other than X are
\* what they were; after delete_auth_token_by_id(T) and after
\* delete_auth_token_by_trapp_and_id(X, T) every trapp and every token
\* other than T is what it was; after a get or a list the whole store is
\* what it was.  The same holds when the statement fails.
C30_DeleteOnlyTarget ==
    LET was == last.pre.db
    IN /\ Called("delete_trapp_by_id")
          => /\ {t \in db.trapps : t.id # last.trapp_id}
                = {t \in was.trapps : t.id # last.trapp_id}
             /\ {a \in db.auth_tokens : a.trapp_id # last.trapp_id}
                = {a \in was.auth_tokens : a.trapp_id # last.trapp_id}
             /\ db.trapps \subseteq was.trapps
             /\ db.auth_tokens \subseteq was.auth_tokens
       /\ (Called("delete_auth_token_by_id") \/ Called("delete_auth_token_by_trapp_and_id"))
          => /\ db.trapps = was.trapps
             /\ {a \in db.auth_tokens : a.id # last.id}
                = {a \in was.auth_tokens : a.id # last.id}
             /\ db.auth_tokens \subseteq was.auth_tokens
       /\ last.op \in Reads => db = was

\* token T of trapp X was deleted through the trapp while X held another
\* token, which is still there
C30_Witness ==
    /\ Called("delete_auth_token_by_trapp_and_id")
    /\ last.ret = Ok(TRUE)
    /\ \E a \in db.auth_tokens : a.trapp_id = last.trapp_id /\ a.id # last.id
    /\ db.trapps # {}

====
